---------------------------- MODULE Spec2Model ----------------------------
(***************************************************************************)
(* A model of the handicapped-parking data pipeline:                       *)
(*   - DataMerger.collect_and_merge   (scripts/data_collection/merger.py)  *)
(*   - NewTaipeiHandler / TaipeiHandler fetch_data and transform_data      *)
(*     (scripts/data_collection/*_handler.py)                              *)
(*   - validate_csv                     (scripts/utils/csv_validator.py)  *)
(*   - decimal_to_dms, dms_to_decimal, validate_coordinates                *)
(*                                         (scripts/utils/geocoding.py)    *)
(*   - collect_data                        (scripts/main.py)               *)
(*   - DataMerger._load_handler and the handlers' construction             *)
(* Each component has its own specification (SpecMerge, SpecFetch,         *)
(* SpecTransform, SpecValidate, SpecDms, SpecCoord, SpecCollect, SpecLoad) *)
(* over the shared variable tuple; the variables of the components a       *)
(* specification does not exercise stay at their idle value.               *)
(*                                                                         *)
(* Text values that are only compared or sorted are coded by small         *)
(* integers that keep the order of the strings they stand for.             *)
(***************************************************************************)
EXTENDS Integers, Sequences, FiniteSets, TLC

VARIABLES
    \* ---- DataMerger (merger.py) ----
    sources,             \* self.sources: the configured source list
    dedup_keys,          \* self.dedup_keys
    m_pc,                \* position in collect_and_merge
    src_idx,             \* index of the next source of the for loop
    all_data,            \* list of per-source tables kept so far
    successful_sources,  \* local counter
    failed_sources,      \* local counter
    merged,              \* the returned table
    outcomes,            \* history: what each source handled so far did
    \* ---- fetch_data (new_taipei_handler.py, taipei_handler.py) ----
    f_handler,           \* which handler runs: "new_taipei" or "taipei"
    is_csv,              \* NewTaipeiHandler: 'csv' in the configured format
    remote,              \* what the source serves (endpoint pages / shapefile)
    cache,               \* the handler's cache file
    f_pc,                \* position in fetch_data
    page,                \* NewTaipeiHandler: the page counter
    nt_all_data,         \* NewTaipeiHandler: all_data, the filtered pages
    f_result,            \* the table fetch_data returned
    requested,           \* history: the page numbers requested
    f_event,             \* history: what ended fetch_data
    \* ---- transform_data (new_taipei_handler.py, taipei_handler.py) ----
    t_handler,           \* which handler runs: "new_taipei" or "taipei"
    coordinate_system,   \* self.coordinate_system (NewTaipeiHandler reads it)
    crs,                 \* gdf.crs (TaipeiHandler reads it)
    fields_mapping,      \* self.fields_mapping
    pyproj_available,    \* whether "from pyproj import Transformer" succeeds
    t_input,             \* the table passed to transform_data
    t_pc,                \* position in transform_data
    t_idx,               \* index of the next row of the for loop
    is_wgs84,            \* local is_wgs84
    t_data,              \* local data: the records appended so far
    errors,              \* local errors
    fates,               \* history: what became of each row handled so far
    \* ---- validate_csv (csv_validator.py) ----
    v_columns,           \* df.columns
    v_table,             \* the rows of df
    v_pc,                \* position in validate_csv
    v_idx,               \* index of the next row of the for loop
    v_errors,            \* result.errors
    v_warnings,          \* result.warnings
    valid_rows,          \* result.valid_rows
    invalid_rows,        \* result.invalid_rows
    \* ---- decimal_to_dms (geocoding.py) ----
    dms_decimal,         \* argument decimal
    dms_is_latitude,     \* argument is_latitude
    dms_pc,              \* "start", "done" once decimal_to_dms has returned,
                         \* "parsed" once dms_to_decimal has read the string back
    dms_text,            \* the string decimal_to_dms returned
    dms_back,            \* the value dms_to_decimal returned
    \* ---- validate_coordinates (geocoding.py) ----
    coord_lat,           \* argument lat
    coord_lon,           \* argument lon
    coord_pc,            \* "start", or "done" once the function has returned
    coord_valid,         \* the returned boolean
    \* ---- collect_data (main.py) ----
    c_fault,             \* the step of the try block that raises, if any
    c_findings,          \* what validate_csv_file reports on the written file
    c_pc,                \* position in collect_data
    c_trace,             \* history: the steps completed so far
    c_logged,            \* history: warning lines logged about the validation
    c_exit,              \* the returned exit code
    \* ---- DataMerger._load_handler and handler construction ----
    ld_source,           \* the source dictionary handed to _load_handler
    ld_pc,               \* position in _load_handler
    ld_handler           \* the attributes of the constructed handler

mergeVars == <<sources, dedup_keys, m_pc, src_idx, all_data,
               successful_sources, failed_sources, merged, outcomes>>

fetchVars == <<f_handler, is_csv, remote, cache, f_pc, page, nt_all_data,
               f_result, requested, f_event>>

transVars == <<t_handler, coordinate_system, crs, fields_mapping, pyproj_available,
               t_input, t_pc, t_idx, is_wgs84, t_data, errors, fates>>

valVars == <<v_columns, v_table, v_pc, v_idx, v_errors, v_warnings,
             valid_rows, invalid_rows>>

dmsVars == <<dms_decimal, dms_is_latitude, dms_pc, dms_text, dms_back>>

coordVars == <<coord_lat, coord_lon, coord_pc, coord_valid>>

collectVars == <<c_fault, c_findings, c_pc, c_trace, c_logged, c_exit>>

loadVars == <<ld_source, ld_pc, ld_handler>>

vars == <<mergeVars, fetchVars, transVars, valVars, dmsVars, coordVars,
          collectVars, loadVars>>

nonMergeVars == <<fetchVars, transVars, valVars, dmsVars, coordVars, collectVars, loadVars>>
nonFetchVars == <<mergeVars, transVars, valVars, dmsVars, coordVars, collectVars, loadVars>>
nonTransVars == <<mergeVars, fetchVars, valVars, dmsVars, coordVars, collectVars, loadVars>>
nonValVars == <<mergeVars, fetchVars, transVars, dmsVars, coordVars, collectVars, loadVars>>
nonDmsVars == <<mergeVars, fetchVars, transVars, valVars, coordVars, collectVars, loadVars>>
nonCoordVars == <<mergeVars, fetchVars, transVars, valVars, dmsVars, collectVars, loadVars>>
nonCollectVars == <<mergeVars, fetchVars, transVars, valVars, dmsVars, coordVars, loadVars>>
nonLoadVars == <<mergeVars, fetchVars, transVars, valVars, dmsVars, coordVars, collectVars>>

-----------------------------------------------------------------------------
(* Generic helpers *)

\* a value returned where Python may return None or a table
NoneValue == [is_none |-> TRUE, rows |-> <<>>]
Table(rows) == [is_none |-> FALSE, rows |-> rows]

RECURSIVE Concat(_)
\* pd.concat(list_of_tables, ignore_index=True): rows of the tables in order
Concat(tables) ==
    IF tables = <<>> THEN <<>>
    ELSE Head(tables) \o Concat(Tail(tables))

SeqsUpTo(S, n) == UNION {[1..k -> S] : k \in 0..n}

RECURSIVE SumSeq(_)
SumSeq(s) == IF s = <<>> THEN 0 ELSE Head(s) + SumSeq(Tail(s))

-----------------------------------------------------------------------------
(* DataMerger *)

\* bounds of the merge model
MaxSources == 3
MaxTotalRows == 3

\* StandardRecord rows offered to the merger.  city/area/road are coded by
\* their rank in string order; R1 and R2 tie on (city, area, road) and
\* differ in dd_lat.
R1 == [city |-> 1, area |-> 2, road |-> 1, dd_lat |-> 1, dd_long |-> 1]
R2 == [city |-> 1, area |-> 2, road |-> 1, dd_lat |-> 2, dd_long |-> 1]
R3 == [city |-> 1, area |-> 1, road |-> 2, dd_lat |-> 1, dd_long |-> 1]
R4 == [city |-> 2, area |-> 1, road |-> 1, dd_lat |-> 1, dd_long |-> 1]
MergeRows == {R1, R2, R3, R4}

\* config['output']['deduplication_keys']: absent/empty, or a list of fields
DedupKeyLists == { <<>>,
                   <<"city", "area", "road">>,
                   <<"dd_lat", "dd_long">> }

\* source['handler']: missing ("" stands for an absent or empty entry), or the
\* name of a handler module
HandlerNames == {"", "new_taipei_handler"}

SourceConfigs == [enabled : BOOLEAN, handler : HandlerNames]

\* _load_handler raises ValueError when the source names no handler
LoadHandlerRaises(source) == source.handler = ""

\* the test of line 70
HasRows_noLenCheck(df) == ~df.is_none
HasRows(df) == ~df.is_none /\ Len(df.rows) > 0

\* the projection of a row on the dedup key list
KeyOf(row, keys) == [i \in 1..Len(keys) |-> row[keys[i]]]

\* DataFrame.drop_duplicates(subset=keys, keep='first')
DropDuplicates_keepLast(rows, keys) ==
    LET keep(i) == \A j \in (i+1)..Len(rows) : KeyOf(rows[j], keys) # KeyOf(rows[i], keys)
        F[i \in 0..Len(rows)] ==
            IF i = 0 THEN <<>>
            ELSE IF keep(i) THEN Append(F[i-1], rows[i]) ELSE F[i-1]
    IN F[Len(rows)]
DropDuplicates(rows, keys) ==
    LET keep(i) == \A j \in 1..(i-1) : KeyOf(rows[j], keys) # KeyOf(rows[i], keys)
        F[i \in 0..Len(rows)] ==
            IF i = 0 THEN <<>>
            ELSE IF keep(i) THEN Append(F[i-1], rows[i]) ELSE F[i-1]
    IN F[Len(rows)]

\* the sort key of line 109
SortKey_cityOnly(row) == <<row.city>>
SortKey(row) == <<row.city, row.area, row.road>>

\* lexicographic <= on key tuples of equal length
LexLE(a, b) ==
    \/ a = b
    \/ \E i \in 1..Len(a) :
          /\ a[i] < b[i]
          /\ \A j \in 1..(i-1) : a[j] = b[j]

\* DataFrame.sort_values([...], ignore_index=True) on several columns: a
\* stable ascending sort (each row goes after the rows whose key is <= its own)
SortValues(rows) ==
    LET InsertRow(sorted, r) ==
            LET n == Cardinality({i \in 1..Len(sorted) : LexLE(SortKey(sorted[i]), SortKey(r))})
            IN SubSeq(sorted, 1, n) \o <<r>> \o SubSeq(sorted, n + 1, Len(sorted))
        F[i \in 0..Len(rows)] ==
            IF i = 0 THEN <<>> ELSE InsertRow(F[i-1], rows[i])
    IN F[Len(rows)]

\* lines 91-112: concat, deduplicate when keys are configured, sort
MergeTables(tables, keys) ==
    LET concatenated == Concat(tables)
        deduped == IF keys # <<>> THEN DropDuplicates(concatenated, keys)
                   ELSE concatenated
    IN SortValues(deduped)

RowsCollected == Len(Concat(all_data))

\* the idle values of the components a specification does not exercise
MergeIdle ==
    /\ sources = <<>>
    /\ dedup_keys = <<>>
    /\ m_pc = "idle"
    /\ src_idx = 1
    /\ all_data = <<>>
    /\ successful_sources = 0
    /\ failed_sources = 0
    /\ merged = <<>>
    /\ outcomes = <<>>

FetchIdle ==
    /\ f_handler = "none"
    /\ is_csv = FALSE
    /\ remote = <<>>
    /\ cache = <<>>
    /\ f_pc = "idle"
    /\ page = 0
    /\ nt_all_data = <<>>
    /\ f_result = <<>>
    /\ requested = <<>>
    /\ f_event = "none"

TransIdle ==
    /\ t_handler = "none"
    /\ coordinate_system = "WGS84"
    /\ crs = "none"
    /\ fields_mapping = <<>>
    /\ pyproj_available = TRUE
    /\ t_input = <<>>
    /\ t_pc = "idle"
    /\ t_idx = 1
    /\ is_wgs84 = FALSE
    /\ t_data = <<>>
    /\ errors = 0
    /\ fates = <<>>

\* validate_csv is not running
ValIdle ==
    /\ v_columns = {}
    /\ v_table = <<>>
    /\ v_pc = "idle"
    /\ v_idx = 1
    /\ v_errors = <<>>
    /\ v_warnings = <<>>
    /\ valid_rows = 0
    /\ invalid_rows = 0

\* no conversion is running
DmsIdle ==
    /\ dms_decimal = 0
    /\ dms_is_latitude = TRUE
    /\ dms_pc = "idle"
    /\ dms_text = <<>>
    /\ dms_back = 0

\* validate_coordinates is not running
CoordIdle ==
    /\ coord_lat = 0
    /\ coord_lon = 0
    /\ coord_pc = "idle"
    /\ coord_valid = FALSE

\* collect_data is not running
CollectIdle ==
    /\ c_fault = "none"
    /\ c_findings = <<>>
    /\ c_pc = "idle"
    /\ c_trace = <<>>
    /\ c_logged = 0
    /\ c_exit = 0

\* _load_handler is not running
LoadIdle ==
    /\ ld_source = <<>>
    /\ ld_pc = "idle"
    /\ ld_handler = <<>>

InitMerge ==
    /\ FetchIdle
    /\ TransIdle
    /\ ValIdle
    /\ DmsIdle
    /\ CoordIdle
    /\ CollectIdle
    /\ LoadIdle
    /\ sources \in SeqsUpTo(SourceConfigs, MaxSources)
    /\ dedup_keys \in DedupKeyLists
    /\ m_pc = "loop"
    /\ src_idx = 1
    /\ all_data = <<>>
    /\ successful_sources = 0
    /\ failed_sources = 0
    /\ merged = <<>>
    /\ outcomes = <<>>

InLoop == m_pc = "loop" /\ src_idx <= Len(sources)

\* lines 57-59: a disabled source is skipped
SkipDisabled ==
    /\ InLoop
    /\ ~sources[src_idx].enabled
    /\ src_idx' = src_idx + 1
    /\ outcomes' = Append(outcomes, [kind |-> "disabled", table |-> <<>>])
    /\ UNCHANGED nonMergeVars
    /\ UNCHANGED <<sources, dedup_keys, m_pc, all_data, successful_sources,
                   failed_sources, merged>>

\* lines 77-81: an exception of _load_handler or handler.process()
SourceRaises_abort ==
    /\ InLoop
    /\ sources[src_idx].enabled
    /\ m_pc' = "raised_source"
    /\ outcomes' = Append(outcomes, [kind |-> "failed", table |-> <<>>])
    /\ UNCHANGED nonMergeVars
    /\ UNCHANGED <<sources, dedup_keys, src_idx, all_data, successful_sources,
                   failed_sources, merged>>
SourceRaises ==
    /\ InLoop
    /\ sources[src_idx].enabled
    /\ failed_sources' = failed_sources + 1
    /\ src_idx' = src_idx + 1
    /\ outcomes' = Append(outcomes, [kind |-> "failed", table |-> <<>>])
    /\ UNCHANGED nonMergeVars
    /\ UNCHANGED <<sources, dedup_keys, m_pc, all_data, successful_sources, merged>>

\* lines 65, 77: the handler cannot be loaded
LoadHandlerFails ==
    /\ InLoop
    /\ sources[src_idx].enabled
    /\ LoadHandlerRaises(sources[src_idx])
    /\ SourceRaises

\* lines 68, 77: handler.process() raises (fetch or transform)
ProcessRaises ==
    /\ InLoop
    /\ sources[src_idx].enabled
    /\ ~LoadHandlerRaises(sources[src_idx])
    /\ SourceRaises

\* lines 68-75: handler.process() returns df
ProcessReturns ==
    /\ InLoop
    /\ sources[src_idx].enabled
    /\ ~LoadHandlerRaises(sources[src_idx])
    /\ \E df \in {NoneValue} \cup
                 {Table(t) : t \in SeqsUpTo(MergeRows, MaxTotalRows - RowsCollected)} :
          /\ IF HasRows(df)
             THEN /\ all_data' = Append(all_data, df.rows)
                  /\ successful_sources' = successful_sources + 1
             ELSE UNCHANGED <<all_data, successful_sources>>
          /\ outcomes' = Append(outcomes,
                 [kind |-> IF df.rows # <<>> THEN "rows" ELSE "empty",
                  table |-> df.rows])
    /\ src_idx' = src_idx + 1
    /\ UNCHANGED nonMergeVars
    /\ UNCHANGED <<sources, dedup_keys, m_pc, failed_sources, merged>>

\* lines 86-89: nothing collected
RaiseNoData ==
    /\ m_pc = "loop"
    /\ src_idx > Len(sources)
    /\ all_data = <<>>
    /\ m_pc' = "raised_no_data"
    /\ UNCHANGED nonMergeVars
    /\ UNCHANGED <<sources, dedup_keys, src_idx, all_data, successful_sources,
                   failed_sources, merged, outcomes>>

\* lines 91-112: merge, deduplicate, sort, return
MergeAndReturn ==
    /\ m_pc = "loop"
    /\ src_idx > Len(sources)
    /\ all_data # <<>>
    /\ merged' = MergeTables(all_data, dedup_keys)
    /\ m_pc' = "done"
    /\ UNCHANGED nonMergeVars
    /\ UNCHANGED <<sources, dedup_keys, src_idx, all_data, successful_sources,
                   failed_sources, outcomes>>

NextMerge ==
    \/ SkipDisabled
    \/ LoadHandlerFails
    \/ ProcessRaises
    \/ ProcessReturns
    \/ RaiseNoData
    \/ MergeAndReturn

SpecMerge == InitMerge /\ [][NextMerge]_vars

-----------------------------------------------------------------------------
(* fetch_data: texts, cells and the filters *)

\* A text is a sequence of characters.  "h","c" stand for the two characters
\* of the default filter pattern.
Contains(text, pat) ==
    \E i \in 0..(Len(text) - Len(pat)) : SubSeq(text, i + 1, i + Len(pat)) = pat

\* cell values of a raw record: a string, a missing value (NaN, or None), or
\* a number given by its decimal digits
StrCell(t) == [kind |-> "str", text |-> t, val |-> 0]
NaNCell == [kind |-> "nan", text |-> <<>>, val |-> 0]
NoneCell == [kind |-> "none", text |-> <<>>, val |-> 0]
IntCell(digits) == [kind |-> "int", text |-> digits, val |-> 0]

\* str(value): NaN gives the text nan, None the text None
PyStr(v) ==
    IF v.kind = "nan" THEN <<"n", "a", "n">>
    ELSE IF v.kind = "none" THEN <<"N", "o", "n", "e">>
    ELSE v.text
\* Series.astype(str): str() of every cell
AsTypeStr(v) == PyStr(v)

\* bounds of the fetch model: the configured page size and the shapefile size
PageSize == 2
MaxShpRows == 3

\* program constants
max_pages == 100
cache_expiry_days == 7

\* config.get('filter_field', 'charged'), config.get('filter_pattern', ...)
nt_filter_field == "charged"
filter_pattern == <<"h", "c">>
\* config.get('filter_field', 'pktype'), config.get('filter_value', '03')
tp_filter_field == "pktype"
filter_value == <<"0", "3">>

\* the values the filter field takes in the rows an endpoint serves, in turn;
\* the last is a missing value (an empty CSV cell is NaN, a JSON null is None)
ChargedValues == << StrCell(<<"h", "c">>), StrCell(<<"c", "h">>),
                    StrCell(<<"x", "h", "c">>),
                    IF is_csv THEN NaNCell ELSE NoneCell >>

\* the k-th record of an endpoint (k from 0)
EndpointRecord(ep, k) ==
    IF ep.has_field
    THEN [id |-> k, charged |-> ChargedValues[((k + ep.offset) % Len(ChargedValues)) + 1]]
    ELSE [id |-> k]

\* the number of records page p of the endpoint holds: full_pages full pages,
\* then one page of last_len records, then empty pages
PageLen(ep, p) ==
    IF p < ep.full_pages THEN PageSize
    ELSE IF p = ep.full_pages THEN ep.last_len
    ELSE 0

\* the records of page p, as parsed from the response
PageRecords(ep, p) ==
    [i \in 1..PageLen(ep, p) |-> EndpointRecord(ep, p * PageSize + (i - 1))]

HasField(rec, f) == f \in DOMAIN rec

\* lines 193-200: the CSV branch keeps the whole page when the filter column
\* is not among the page's columns
FilterCsvPage(recs) ==
    IF recs # <<>> /\ HasField(recs[1], nt_filter_field)
    THEN SelectSeq(recs, LAMBDA r : Contains(AsTypeStr(r[nt_filter_field]), filter_pattern))
    ELSE recs

\* lines 233-237: record.get(filter_field, '') of the JSON branch
FilterJsonPage(recs) ==
    SelectSeq(recs, LAMBDA r :
        Contains(IF HasField(r, nt_filter_field) THEN PyStr(r[nt_filter_field]) ELSE <<>>,
                 filter_pattern))

FilterPage(recs) == IF is_csv THEN FilterCsvPage(recs) ELSE FilterJsonPage(recs)

\* _is_cache_valid: the file exists and is not older than the expiry
IsCacheValid(c) == c.exists /\ ~(c.age_days > cache_expiry_days)

-----------------------------------------------------------------------------
(* NewTaipeiHandler.fetch_data *)

\* what a paginated endpoint serves: full_pages pages of page_size records
\* (max_pages of them: the endpoint never signals the end within the cap),
\* then a page of last_len records
Endpoints ==
    [full_pages : {0, 1, 2, max_pages - 1, max_pages},
     last_len : 0..(PageSize - 1),
     has_field : BOOLEAN,
     offset : 0..1]

NoCache == [exists |-> FALSE, age_days |-> 0, data |-> <<>>]
CacheOf(data) == [exists |-> TRUE, age_days |-> 0, data |-> data]

\* the cache file before the call: absent, or written by an earlier run
NtCaches ==
    {NoCache} \cup
    [exists : {TRUE}, age_days : {0, cache_expiry_days, cache_expiry_days + 1},
     data : {<<[id |-> 0, charged |-> StrCell(<<"h", "c">>)]>>}]

\* line 168: the while condition
LoopContinues_unbounded(p) == TRUE
LoopContinues_firstPageOnly(p) == p < 1
LoopContinues(p) == p < max_pages

\* lines 252-256: a RequestException is re-raised on the first page only
RaisesOnRequestException_never(p) == FALSE
RaisesOnRequestException(p) == p = 0

\* lines 262-276: combine the pages kept, save them to the cache, return
ReturnCombined(frames, event) ==
    /\ f_result' = Concat(frames)
    /\ cache' = IF frames # <<>> THEN CacheOf(Concat(frames)) ELSE cache
    /\ f_pc' = "done"
    /\ f_event' = event

\* a RequestException inside the loop (lines 249-256)
OnRequestException(event) ==
    IF RaisesOnRequestException(page)
    THEN /\ f_pc' = "raised"
         /\ f_event' = event
         /\ UNCHANGED <<f_result, cache>>
    ELSE ReturnCombined(nt_all_data, event)

InNtLoop == f_handler = "new_taipei" /\ f_pc = "loop"

\* lines 146-150: a valid cache file is returned as it is
NtReturnCached ==
    /\ UNCHANGED nonFetchVars
    /\ f_handler = "new_taipei" /\ f_pc = "start"
    /\ IsCacheValid(cache)
    /\ f_result' = cache.data
    /\ f_pc' = "done"
    /\ f_event' = "cache_hit"
    /\ UNCHANGED <<f_handler, is_csv, remote, cache, page, nt_all_data, requested>>

\* lines 152-167: a cache miss enters the pagination loop
NtStartPaging ==
    /\ UNCHANGED nonFetchVars
    /\ f_handler = "new_taipei" /\ f_pc = "start"
    /\ ~IsCacheValid(cache)
    /\ f_pc' = "loop"
    /\ page' = 0
    /\ nt_all_data' = <<>>
    /\ UNCHANGED <<f_handler, is_csv, remote, cache, f_result, requested, f_event>>

\* line 168: the page cap ends the loop
NtPageCap ==
    /\ UNCHANGED nonFetchVars
    /\ InNtLoop
    /\ ~LoopContinues(page)
    /\ ReturnCombined(nt_all_data, "page_cap")
    /\ UNCHANGED <<f_handler, is_csv, remote, page, nt_all_data, requested>>

\* lines 174-175, 249-256: requests.get or raise_for_status raises
NtTransportError ==
    /\ UNCHANGED nonFetchVars
    /\ InNtLoop
    /\ LoopContinues(page)
    /\ requested' = Append(requested, page)
    /\ OnRequestException("transport_error")
    /\ UNCHANGED <<f_handler, is_csv, remote, page, nt_all_data>>

\* line 209: response.json() raises.  requests' JSONDecodeError is a
\* RequestException from requests 2.27 on and a plain ValueError before, so
\* either except clause may take it
NtJsonDecodeError ==
    /\ UNCHANGED nonFetchVars
    /\ InNtLoop
    /\ LoopContinues(page)
    /\ ~is_csv
    /\ requested' = Append(requested, page)
    /\ \/ OnRequestException("body_unparseable")
       \/ ReturnCombined(nt_all_data, "body_unparseable")
    /\ UNCHANGED <<f_handler, is_csv, remote, page, nt_all_data>>

\* lines 185, 258-260: pd.read_csv raises on the body
NtCsvParseError ==
    /\ UNCHANGED nonFetchVars
    /\ InNtLoop
    /\ LoopContinues(page)
    /\ is_csv
    /\ requested' = Append(requested, page)
    /\ ReturnCombined(nt_all_data, "body_unparseable")
    /\ UNCHANGED <<f_handler, is_csv, remote, page, nt_all_data>>

\* lines 221-224: the JSON payload is not a list
NtPayloadNotList ==
    /\ UNCHANGED nonFetchVars
    /\ InNtLoop
    /\ LoopContinues(page)
    /\ ~is_csv
    /\ requested' = Append(requested, page)
    /\ ReturnCombined(nt_all_data, "payload_not_list")
    /\ UNCHANGED <<f_handler, is_csv, remote, page, nt_all_data>>

\* lines 178-247: the page is received and parsed
NtPageReceived ==
    /\ UNCHANGED nonFetchVars
    /\ InNtLoop
    /\ LoopContinues(page)
    /\ requested' = Append(requested, page)
    /\ LET recs == PageRecords(remote, page)
           kept == Append(nt_all_data, FilterPage(recs))
       IN IF Len(recs) = 0
          THEN \* lines 181-183, 189-191, 229-231: empty page
               /\ ReturnCombined(nt_all_data, "empty_page")
               /\ UNCHANGED <<page, nt_all_data>>
          ELSE IF Len(recs) < PageSize
          THEN \* lines 203-205, 243-245: short last page
               /\ nt_all_data' = kept
               /\ ReturnCombined(kept, "short_page")
               /\ UNCHANGED page
          ELSE \* line 247
               /\ nt_all_data' = kept
               /\ page' = page + 1
               /\ UNCHANGED <<f_pc, f_result, cache, f_event>>
    /\ UNCHANGED <<f_handler, is_csv, remote>>

-----------------------------------------------------------------------------
(* TaipeiHandler.fetch_data *)

\* the values of the parking-type column: "03", "04", the number 3, missing
PkValues == {StrCell(<<"0", "3">>), StrCell(<<"0", "4">>), IntCell(<<"3">>), NaNCell}

\* the name of the parking-type column in the shapefile: as configured, in
\* another case, or no such column (the rows then carry another column)
PkColumns == {"pktype", "PKTYPE", "kind"}

\* str.lower() on the column names that occur
Lower(name) == IF name = "PKTYPE" THEN "pktype" ELSE name

ShpRow(col, i, v) == [c \in {"id", col} |-> IF c = "id" THEN i ELSE v]

\* a ZIP archive: unreadable (not a ZIP, or no .shp inside), or a shapefile
\* with one attribute column and some rows
UnreadableArchive == [readable |-> FALSE, col |-> "kind", rows |-> <<>>]
Archives ==
    {UnreadableArchive} \cup
    { [readable |-> TRUE, col |-> c,
       rows |-> [i \in DOMAIN vs |-> ShpRow(c, i, vs[i])]] :
         c \in PkColumns, vs \in SeqsUpTo(PkValues, MaxShpRows) }

TpCaches ==
    {NoCache} \cup
    [exists : {TRUE}, age_days : {cache_expiry_days, cache_expiry_days + 1},
     data : { [readable |-> TRUE, col |-> "pktype",
               rows |-> <<ShpRow("pktype", 1, StrCell(<<"0", "3">>)),
                          ShpRow("pktype", 2, StrCell(<<"0", "4">>))>>] }]

\* lines 172-181: the column to filter on: the configured name, else the
\* column that matches it ignoring case, else none (ValueError)
ResolveFilterField(col) ==
    IF col = tp_filter_field THEN col
    ELSE IF Lower(col) = Lower(tp_filter_field) THEN col
    ELSE "unresolved"

\* line 185: gdf[gdf[filter_field].astype(str) == str(filter_value)]
FilterShapefile(rows, field) ==
    SelectSeq(rows, LAMBDA r : AsTypeStr(r[field]) = filter_value)

AtTpStart == f_handler = "taipei" /\ f_pc = "start"

\* lines 124-136: the download raises a RequestException
TpDownloadFails ==
    /\ UNCHANGED nonFetchVars
    /\ AtTpStart
    /\ ~IsCacheValid(cache)
    /\ f_pc' = "raised"
    /\ f_event' = "transport_error"
    /\ UNCHANGED <<f_handler, is_csv, remote, cache, page, nt_all_data, f_result, requested>>

\* lines 116-194: the archive comes from the cache or is downloaded (and then
\* cached), is extracted and read, and its rows are filtered
TpFetch ==
    /\ UNCHANGED nonFetchVars
    /\ AtTpStart
    /\ LET hit == IsCacheValid(cache)
           zip_content == IF hit THEN cache.data ELSE remote
           field == ResolveFilterField(zip_content.col)
       IN /\ cache' = IF hit THEN cache ELSE CacheOf(remote)
          /\ IF ~zip_content.readable
             THEN \* lines 163-165
                  /\ f_pc' = "raised"
                  /\ f_event' = "unreadable_archive"
                  /\ UNCHANGED f_result
             ELSE IF field = "unresolved"
             THEN \* lines 179-181
                  /\ f_pc' = "raised"
                  /\ f_event' = "filter_field_missing"
                  /\ UNCHANGED f_result
             ELSE /\ f_result' = FilterShapefile(zip_content.rows, field)
                  /\ f_pc' = "done"
                  /\ f_event' = IF hit THEN "cache_hit" ELSE "downloaded"
    /\ UNCHANGED <<f_handler, is_csv, remote, page, nt_all_data, requested>>

-----------------------------------------------------------------------------
(* The specification of fetch_data *)

InitFetch ==
    /\ MergeIdle
    /\ TransIdle
    /\ ValIdle
    /\ DmsIdle
    /\ CoordIdle
    /\ CollectIdle
    /\ LoadIdle
    /\ f_pc = "start"
    /\ page = 0
    /\ nt_all_data = <<>>
    /\ f_result = <<>>
    /\ requested = <<>>
    /\ f_event = "none"
    /\ \/ /\ f_handler = "new_taipei"
          /\ is_csv \in BOOLEAN
          /\ remote \in Endpoints
          /\ cache \in NtCaches
       \/ /\ f_handler = "taipei"
          /\ is_csv = FALSE
          /\ remote \in Archives
          /\ cache \in TpCaches

NextFetch ==
    \/ NtReturnCached
    \/ NtStartPaging
    \/ NtPageCap
    \/ NtTransportError
    \/ NtJsonDecodeError
    \/ NtCsvParseError
    \/ NtPayloadNotList
    \/ NtPageReceived
    \/ TpDownloadFails
    \/ TpFetch

SpecFetch == InitFetch /\ [][NextFetch]_vars

\* fetch_data runs in one thread and every request carries a timeout, so a
\* step that can be taken is taken
SpecFetchFair == SpecFetch /\ WF_vars(NextFetch)

-----------------------------------------------------------------------------
(* transform_data: coordinates, field mapping and text clean-up *)

\* bound of the transform model: rows of the input table
MaxTRows == 2

\* the coordinate ranges the handlers test (new_taipei_handler.py lines 327,
\* 350; taipei_handler.py lines 227, 230)
TWD97_X_MIN == 100000
TWD97_X_MAX == 400000
TWD97_Y_MIN == 2400000
TWD97_Y_MAX == 2900000
LAT_MIN == -90
LAT_MAX == 90
LON_MIN == -180
LON_MAX == 180

InTwd97Range(x, y) ==
    TWD97_X_MIN <= x /\ x <= TWD97_X_MAX /\ TWD97_Y_MIN <= y /\ y <= TWD97_Y_MAX
InWgs84Range(lat, lon) ==
    LAT_MIN <= lat /\ lat <= LAT_MAX /\ LON_MIN <= lon /\ lon <= LON_MAX

\* coordinate cells: a number, a string that float() parses, and (as above)
\* a string float() rejects, a missing value, or a list of several values
NumCell(v) == [kind |-> "num", text |-> <<>>, val |-> v]
NumStrCell(v) == [kind |-> "numstr", text |-> <<>>, val |-> v]
ListCell == [kind |-> "list", text |-> <<>>, val |-> 0]

\* pd.isna(value) for a scalar
IsNa(c) == c.kind \in {"nan", "none"}
\* bool(pd.isna(value)) raises ValueError for a list of several values
IsNaRaises(c) == c.kind = "list"
\* float(value) raises ValueError / TypeError
FloatRaises(c) == c.kind \notin {"num", "numstr"}

\* a decimal-degree value: given directly, or the latitude / longitude that
\* pyproj computes from the TWD97 point (x, y)
Degrees(v) == [conv |-> "none", axis |-> "any", of |-> <<v>>]
Twd97ToWgs84(x, y) ==
    [lat |-> [conv |-> "EPSG:3826->EPSG:4326", axis |-> "lat", of |-> <<x, y>>],
     lon |-> [conv |-> "EPSG:3826->EPSG:4326", axis |-> "lon", of |-> <<x, y>>]]

\* decimal_to_dms(value, is_latitude): the DMS text of the value
DecimalToDms(dd, is_latitude) == [dms_of |-> dd, is_latitude |-> is_latitude]

\* dict.get(key, default) / Series.get(key, default)
MapGet(m, key, default) == IF key \in DOMAIN m THEN m[key] ELSE default

\* the column a mapping value names: mapping values are texts, column names
\* are one-token texts
ColumnOf(mv) == IF Len(mv) = 1 THEN mv[1] ELSE ""

\* str.replace(old, ''): every occurrence of the token is removed
RemoveAll(text, token) == SelectSeq(text, LAMBDA ch : ch # token)

\* str.strip()
Strip(text) ==
    LET keep == {i \in DOMAIN text : text[i] # " "}
        lo == CHOOSE i \in keep : \A j \in keep : i <= j
        hi == CHOOSE i \in keep : \A j \in keep : j <= i
    IN IF keep = {} THEN <<>> ELSE SubSeq(text, lo, hi)

\* base_handler.py lines 127-134
GetFieldValue(row, mapping_key, default) ==
    LET mapping_value == MapGet(fields_mapping, mapping_key, default)
    IN IF mapping_value # <<>> /\ mapping_value[1] = "fixed:"
       THEN RemoveAll(mapping_value, "fixed:")
       ELSE PyStr(MapGet(row, ColumnOf(mapping_value), StrCell(default)))

\* the texts replaced by the empty string
Placeholders == { <<"N", "o", "n", "e">>, <<"n", "a", "n">>,
                  <<"<", "N", "A", ">">>, <<"N", "a", "N">>, <<>> }

\* the clean-up without the strip() call
CleanText_noStrip(text) == IF text \in Placeholders THEN <<>> ELSE text

\* str(value).strip(), then placeholders become ''
CleanText(text) ==
    LET stripped == Strip(text)
    IN IF stripped \in Placeholders THEN <<>> ELSE stripped

\* AREA_CODE_MAPPING (one of its 29 entries)
AreaCodeMapping(area) ==
    IF area = <<"65000010">> THEN <<"Banqiao District">> ELSE area

\* the record appended to data
StandardRecord(row, lat, lon, default_city, map_area_code) ==
    LET area == CleanText(GetFieldValue(row, "area", <<>>))
    IN [city |-> GetFieldValue(row, "city", default_city),
        area |-> IF map_area_code THEN AreaCodeMapping(area) ELSE area,
        road |-> CleanText(GetFieldValue(row, "road", <<>>)),
        dd_lat |-> lat,
        dd_long |-> lon,
        dms_lat |-> DecimalToDms(lat, TRUE),
        dms_long |-> DecimalToDms(lon, FALSE)]

\* what the loop body does with one row
Emitted(rec) == [fate |-> "emitted", rec |-> rec]
Skipped == [fate |-> "skipped", rec |-> <<>>]
Errored == [fate |-> "error", rec |-> <<>>]

\* fields_mapping of the source configuration
FieldMappings ==
    { [city |-> <<"fixed:", "T">>, area |-> <<"district">>, road |-> <<"name">>],
      [area |-> <<"district">>],
      [city |-> <<"cityname">>, area |-> <<"district">>, road |-> <<"name">>],
      [city |-> <<"fixed:", "A", "fixed:", "B">>, area |-> <<"district">>,
       road |-> <<"name">>] }

\* the text columns of a raw row
PlainTexts ==
    [district |-> StrCell(<<"A">>), name |-> StrCell(<<"R">>), cityname |-> StrCell(<<"C">>)]
TextCases ==
    { [district |-> StrCell(<<" ", "A", " ">>), name |-> NaNCell,
       cityname |-> StrCell(<<" ", "C">>)],
      [district |-> StrCell(<<"65000010">>), name |-> StrCell(<<"N", "o", "n", "e">>),
       cityname |-> NaNCell],
      [district |-> StrCell(<<" ">>), name |-> StrCell(<<"<", "N", "A", ">">>),
       cityname |-> NoneCell] }

\* a row: the union of two records with disjoint fields
RowOf(a, b) == [f \in (DOMAIN a) \cup (DOMAIN b) |-> IF f \in DOMAIN a THEN a[f] ELSE b[f]]

-----------------------------------------------------------------------------
(* NewTaipeiHandler.transform_data *)

\* one pass of the loop body over a row (lines 308-396)
NtTransformRowOutcome(row) ==
    LET first_field == IF is_wgs84 THEN ColumnOf(MapGet(fields_mapping, "lat", <<"lat">>))
                       ELSE ColumnOf(MapGet(fields_mapping, "x", <<"X">>))
        second_field == IF is_wgs84 THEN ColumnOf(MapGet(fields_mapping, "lon", <<"lon">>))
                        ELSE ColumnOf(MapGet(fields_mapping, "y", <<"Y">>))
        a == MapGet(row, first_field, NoneCell)
        b == MapGet(row, second_field, NoneCell)
        converted == Twd97ToWgs84(a.val, b.val)
        lat == IF is_wgs84 THEN Degrees(a.val) ELSE converted.lat
        lon == IF is_wgs84 THEN Degrees(b.val) ELSE converted.lon
    IN IF IsNaRaises(a) THEN Errored
       ELSE IF IsNa(a) THEN Skipped
       ELSE IF IsNaRaises(b) THEN Errored
       ELSE IF IsNa(b) THEN Skipped
       ELSE IF FloatRaises(a) \/ FloatRaises(b) THEN Skipped
       ELSE IF is_wgs84 /\ ~InWgs84Range(a.val, b.val) THEN Skipped
       ELSE IF ~is_wgs84 /\ ~InTwd97Range(a.val, b.val) THEN Skipped
       ELSE IF ~is_wgs84 /\ ~pyproj_available THEN Errored
       ELSE Emitted(StandardRecord(row, lat, lon, <<"New Taipei City">>, TRUE))

\* coordinate pairs of raw rows, in and around the ranges
WgsPairs ==
    { <<NumCell(25), NumCell(121)>>, <<NumStrCell(25), NumStrCell(121)>>,
      <<NumCell(LAT_MIN), NumCell(LON_MIN)>>, <<NumCell(LAT_MAX), NumCell(LON_MAX)>>,
      <<NumCell(LAT_MAX + 1), NumCell(121)>>, <<NumCell(LAT_MIN - 1), NumCell(121)>>,
      <<NumCell(25), NumCell(LON_MAX + 1)>>, <<NumCell(25), NumCell(LON_MIN - 1)>>,
      <<NaNCell, NumCell(121)>>, <<NumCell(25), NoneCell>>,
      <<StrCell(<<"x">>), NumCell(121)>>, <<NumCell(25), StrCell(<<"x">>)>>,
      <<ListCell, NumCell(121)>>, <<NumCell(25), ListCell>>, <<NaNCell, ListCell>> }
TwdPairs ==
    { <<NumCell(300000), NumCell(2700000)>>, <<NumStrCell(300000), NumStrCell(2700000)>>,
      <<NumCell(TWD97_X_MIN), NumCell(TWD97_Y_MIN)>>,
      <<NumCell(TWD97_X_MAX), NumCell(TWD97_Y_MAX)>>,
      <<NumCell(TWD97_X_MAX + 1), NumCell(2700000)>>,
      <<NumCell(TWD97_X_MIN - 1), NumCell(2700000)>>,
      <<NumCell(300000), NumCell(TWD97_Y_MAX + 1)>>,
      <<NumCell(300000), NumCell(TWD97_Y_MIN - 1)>>,
      <<NaNCell, NumCell(2700000)>>, <<NumCell(300000), NoneCell>>,
      <<StrCell(<<"x">>), NumCell(2700000)>>, <<NumCell(300000), StrCell(<<"x">>)>>,
      <<ListCell, NumCell(2700000)>>, <<NumCell(300000), ListCell>>, <<NaNCell, ListCell>> }

WgsRow(pair, texts) == RowOf([lat |-> pair[1], lon |-> pair[2]], texts)
TwdRow(pair, texts) == RowOf([X |-> pair[1], Y |-> pair[2]], texts)

NtRawRows(system) ==
    IF system = "WGS84"
    THEN {WgsRow(p, PlainTexts) : p \in WgsPairs}
         \cup {WgsRow(<<NumCell(25), NumCell(121)>>, t) : t \in TextCases}
    ELSE {TwdRow(p, PlainTexts) : p \in TwdPairs}
         \cup {TwdRow(<<NumCell(300000), NumCell(2700000)>>, t) : t \in TextCases}

InTLoop == t_pc = "rows" /\ t_idx <= Len(t_input)

\* lines 288-304: reset the tallies and read the declared coordinate system
NtBeginTransform ==
    /\ UNCHANGED nonTransVars
    /\ t_handler = "new_taipei"
    /\ t_pc = "start"
    /\ is_wgs84' = (coordinate_system = "WGS84")
    /\ t_pc' = "rows"
    /\ UNCHANGED <<t_handler, coordinate_system, crs, fields_mapping, pyproj_available,
                   t_input, t_idx, t_data, errors, fates>>

\* lines 306-396: one iteration of the loop
NtTransformRow ==
    /\ UNCHANGED nonTransVars
    /\ t_handler = "new_taipei"
    /\ InTLoop
    /\ LET out == NtTransformRowOutcome(t_input[t_idx])
       IN /\ t_data' = IF out.fate = "emitted" THEN Append(t_data, out.rec) ELSE t_data
          /\ errors' = IF out.fate = "error" THEN errors + 1 ELSE errors
          /\ fates' = Append(fates, out.fate)
    /\ t_idx' = t_idx + 1
    /\ UNCHANGED <<t_handler, coordinate_system, crs, fields_mapping, pyproj_available,
                   t_input, t_pc, is_wgs84>>

-----------------------------------------------------------------------------
(* TaipeiHandler.transform_data *)

\* the geometry cell of a shapefile row
NullGeom == [kind |-> "null", x |-> 0, y |-> 0]
EmptyGeom == [kind |-> "empty", x |-> 0, y |-> 0]
Geom(x, y) == [kind |-> "geom", x |-> x, y |-> y]

\* gdf.iloc[0].geometry.centroid and its .x / .y raise: IndexError on a table
\* without rows, AttributeError on a null geometry, and reading the
\* coordinates of the empty point fails too
SampleRaises(gdf) == IF Len(gdf) = 0 THEN TRUE ELSE gdf[1].geometry.kind # "geom"

\* lines 227-235 and 241-249: guess the system from the sample centroid
AutoDetectIsWgs84(sample_x, sample_y) ==
    IF InTwd97Range(sample_x, sample_y) THEN FALSE
    ELSE IF InWgs84Range(sample_y, sample_x) THEN TRUE
    ELSE FALSE

\* lines 214-223: the table's CRS decides without a sample
CrsDecides == crs \in {"EPSG:4326", "EPSG:3826"}

\* one pass of the loop body over a row (lines 253-313)
TpTransformRowOutcome(row) ==
    LET geom == row.geometry
        converted == Twd97ToWgs84(geom.x, geom.y)
        lat == IF is_wgs84 THEN Degrees(geom.y) ELSE converted.lat
        lon == IF is_wgs84 THEN Degrees(geom.x) ELSE converted.lon
    IN IF geom.kind \in {"null", "empty"} THEN Skipped
       ELSE IF ~is_wgs84 /\ ~pyproj_available THEN Errored
       ELSE Emitted(StandardRecord(row, lat, lon, <<"Taipei City">>, FALSE))

Geometries ==
    { NullGeom, EmptyGeom,
      Geom(300000, 2770000), Geom(TWD97_X_MIN, TWD97_Y_MIN), Geom(TWD97_X_MAX + 1, 2770000),
      Geom(121, 25), Geom(LON_MAX, LAT_MAX), Geom(200, 95), Geom(121, LAT_MIN - 1) }

TpRawRows ==
    {RowOf([geometry |-> g], PlainTexts) : g \in Geometries}
    \cup {RowOf([geometry |-> Geom(300000, 2770000)], t) : t \in TextCases}

CrsValues == {"EPSG:4326", "EPSG:3826", "other", "none"}

\* lines 206-249: the coordinate system is detected
TpDetectCrs ==
    /\ UNCHANGED nonTransVars
    /\ t_handler = "taipei"
    /\ t_pc = "start"
    /\ IF CrsDecides THEN TRUE ELSE ~SampleRaises(t_input)
    /\ is_wgs84' = IF CrsDecides THEN crs = "EPSG:4326"
                   ELSE AutoDetectIsWgs84(t_input[1].geometry.x, t_input[1].geometry.y)
    /\ t_pc' = "rows"
    /\ UNCHANGED <<t_handler, coordinate_system, crs, fields_mapping, pyproj_available,
                   t_input, t_idx, t_data, errors, fates>>

\* lines 225 and 239: reading the sample centroid raises, outside any try
TpDetectCrsRaises ==
    /\ UNCHANGED nonTransVars
    /\ t_handler = "taipei"
    /\ t_pc = "start"
    /\ ~CrsDecides
    /\ SampleRaises(t_input)
    /\ t_pc' = "raised"
    /\ UNCHANGED <<t_handler, coordinate_system, crs, fields_mapping, pyproj_available,
                   t_input, t_idx, is_wgs84, t_data, errors, fates>>

\* lines 252-313: one iteration of the loop
TpTransformRow ==
    /\ UNCHANGED nonTransVars
    /\ t_handler = "taipei"
    /\ InTLoop
    /\ LET out == TpTransformRowOutcome(t_input[t_idx])
       IN /\ t_data' = IF out.fate = "emitted" THEN Append(t_data, out.rec) ELSE t_data
          /\ errors' = IF out.fate = "error" THEN errors + 1 ELSE errors
          /\ fates' = Append(fates, out.fate)
    /\ t_idx' = t_idx + 1
    /\ UNCHANGED <<t_handler, coordinate_system, crs, fields_mapping, pyproj_available,
                   t_input, t_pc, is_wgs84>>

\* the loop is exhausted and the table of records is returned (both handlers)
TransformReturn ==
    /\ UNCHANGED nonTransVars
    /\ t_pc = "rows"
    /\ t_idx > Len(t_input)
    /\ t_pc' = "done"
    /\ UNCHANGED <<t_handler, coordinate_system, crs, fields_mapping, pyproj_available,
                   t_input, t_idx, is_wgs84, t_data, errors, fates>>

InitTransform ==
    /\ MergeIdle
    /\ FetchIdle
    /\ ValIdle
    /\ DmsIdle
    /\ CoordIdle
    /\ CollectIdle
    /\ LoadIdle
    /\ t_handler \in {"new_taipei", "taipei"}
    /\ fields_mapping \in FieldMappings
    /\ pyproj_available \in BOOLEAN
    /\ \/ /\ t_handler = "new_taipei"
          /\ coordinate_system \in {"WGS84", "TWD97"}
          /\ crs = "none"
          /\ t_input \in SeqsUpTo(NtRawRows(coordinate_system), MaxTRows)
       \/ /\ t_handler = "taipei"
          /\ coordinate_system = "TWD97"
          /\ crs \in CrsValues
          /\ t_input \in SeqsUpTo(TpRawRows, MaxTRows)
    /\ t_pc = "start"
    /\ t_idx = 1
    /\ is_wgs84 = FALSE
    /\ t_data = <<>>
    /\ errors = 0
    /\ fates = <<>>

NextTransform ==
    \/ NtBeginTransform
    \/ NtTransformRow
    \/ TpDetectCrs
    \/ TpDetectCrsRaises
    \/ TpTransformRow
    \/ TransformReturn

SpecTransform == InitTransform /\ [][NextTransform]_vars

-----------------------------------------------------------------------------
(* csv_validator.py: ParkingLocation, ValidationResult, validate_csv *)

\* bound of the validator model: rows of the validated table
MaxVRows == 2

\* In this section dd_lat and dd_long are counted in tenths of a degree
\* (215 is 21.5 degrees), and a DMS text is a sequence of tokens.

\* geocoding.py: is_in_taiwan(lat, lon)
IsInTaiwan(lat, lon) == 215 <= lat /\ lat <= 255 /\ 1195 <= lon /\ lon <= 1225

\* validate_not_empty raises: not v or not v.strip()
NotEmptyRaises(text) == text = <<>> \/ Strip(text) = <<>>

\* validate_latitude raises
LatitudeRaises_globalOnly(v) == ~(-900 <= v /\ v <= 900)
LatitudeRaises(v) ==
    \/ ~(-900 <= v /\ v <= 900)
    \/ ~(215 <= v /\ v <= 255)

\* validate_longitude raises
LongitudeRaises(v) ==
    \/ ~(-1800 <= v /\ v <= 1800)
    \/ ~(1195 <= v /\ v <= 1225)

\* 'x' in v
HasToken(text, token) == \E i \in DOMAIN text : text[i] = token

\* validate_dms_format raises
DmsFormatRaises(text) ==
    \/ text = <<>> \/ Strip(text) = <<>>
    \/ ~HasToken(text, "°") \/ ~HasToken(text, "'") \/ ~HasToken(text, "\"")
    \/ ~(\E d \in {"N", "S", "E", "W"} : HasToken(text, d))

\* pydantic: a str field takes only a string; a float field takes a number,
\* NaN included, or a numeric string; then the field's validator runs
NotEmptyFieldFails(cell) ==
    IF cell.kind # "str" THEN TRUE ELSE NotEmptyRaises(cell.text)
DmsFieldFails(cell) ==
    IF cell.kind # "str" THEN TRUE ELSE DmsFormatRaises(cell.text)
LatitudeFieldFails(cell) ==
    IF cell.kind \in {"num", "numstr"} THEN LatitudeRaises(cell.val) ELSE TRUE
LongitudeFieldFails(cell) ==
    IF cell.kind \in {"num", "numstr"} THEN LongitudeRaises(cell.val) ELSE TRUE

\* the fields of the ValidationError that ParkingLocation(**row_dict) raises
\* (the empty set: the row validates)
ViolatedFields(row) ==
    {f \in {"city", "area", "road"} : NotEmptyFieldFails(row[f])}
    \cup {f \in {"dd_lat"} : LatitudeFieldFails(row[f])}
    \cup {f \in {"dd_long"} : LongitudeFieldFails(row[f])}
    \cup {f \in {"dms_lat", "dms_long"} : DmsFieldFails(row[f])}

required_columns == <<"city", "area", "road", "dd_lat", "dd_long", "dms_lat", "dms_long">>
duplicate_cols == <<"city", "area", "road", "dd_lat", "dd_long">>

\* set(required_columns) - set(df.columns)
MissingColumns_none(columns) == {}
MissingColumns(columns) ==
    {required_columns[i] : i \in DOMAIN required_columns} \ columns

\* entries of result.errors and result.warnings (idx is the row label, 0-based)
MissingColumnsError(cols) ==
    [kind |-> "missing_columns", idx |-> 0, fields |-> cols, count |-> 0]
RowError(idx, fields) ==
    [kind |-> "row", idx |-> idx, fields |-> fields, count |-> 0]
MissingValuesError(col, n) ==
    [kind |-> "missing_values", idx |-> 0, fields |-> {col}, count |-> n]
EmptyWarning == [kind |-> "empty", count |-> 0, rows |-> <<>>]
DuplicateCountWarning(n) == [kind |-> "duplicate_count", count |-> n, rows |-> <<>>]
DuplicateRowsWarning(rows) == [kind |-> "duplicate_rows", count |-> 0, rows |-> rows]

\* ValidationResult.is_valid()
IsValid_noFindings == Len(v_errors) = 0 /\ Len(v_warnings) = 0
IsValid == Len(v_errors) = 0

\* df.duplicated(subset=duplicate_cols, keep=False)
DupKey(row) == [i \in DOMAIN duplicate_cols |-> row[duplicate_cols[i]]]
Duplicated(table) ==
    [i \in DOMAIN table |-> \E j \in DOMAIN table : j # i /\ DupKey(table[j]) = DupKey(table[i])]

\* df[duplicates].index.tolist()
DuplicateRows(table) ==
    LET positions == SelectSeq([i \in DOMAIN table |-> i], LAMBDA i : Duplicated(table)[i])
    IN [k \in DOMAIN positions |-> positions[k] - 1]

\* df[col].isna().sum()
MissingCount(table, col) ==
    Cardinality({i \in DOMAIN table : table[i][col].kind \in {"nan", "none"}})

\* the errors of the per-column missing-value loop, in column order
MissingValueErrors(table) ==
    LET with_missing == SelectSeq(required_columns, LAMBDA col : MissingCount(table, col) > 0)
    IN [k \in DOMAIN with_missing |->
            MissingValuesError(with_missing[k], MissingCount(table, with_missing[k]))]

\* DMS texts of the rows
GoodDmsLat == <<"25", "°", "02", "'", "23.40", "\"", "N">>
GoodDmsLong == <<"121", "°", "33", "'", "55.44", "\"", "E">>
BadDmsTexts ==
    { <<"25", "02", "'", "23.40", "\"", "N">>,
      <<"25", "°", "02", "'", "23.40", "\"">>,
      <<"25", "°", "N", "02", "'", "23.40", "\"">>,
      <<>>,
      <<" ">> }

\* a row of the validated table
VRow(city, area, road, dd_lat, dd_long, dms_lat, dms_long) ==
    [city |-> city, area |-> area, road |-> road, dd_lat |-> dd_lat,
     dd_long |-> dd_long, dms_lat |-> dms_lat, dms_long |-> dms_long]

GoodRow ==
    VRow(StrCell(<<"T">>), StrCell(<<"A">>), StrCell(<<"R">>), NumCell(250),
         NumCell(1215), StrCell(GoodDmsLat), StrCell(GoodDmsLong))

\* coordinates in and around the Taiwan and the global bounds
VCoordinates ==
    { <<215, 1195>>, <<255, 1225>>, <<214, 1215>>, <<256, 1215>>, <<250, 1194>>,
      <<250, 1226>>, <<500, 1215>>, <<910, 1215>>, <<250, 1810>> }

ValRows ==
    {GoodRow}
    \cup {[GoodRow EXCEPT !.dd_lat = NumCell(c[1]), !.dd_long = NumCell(c[2])] :
            c \in VCoordinates}
    \cup {[GoodRow EXCEPT !.dms_lat = StrCell(t)] : t \in BadDmsTexts}
    \cup {[GoodRow EXCEPT ![f] = StrCell(<<>>)] : f \in {"city", "area", "road"}}
    \cup {[GoodRow EXCEPT !.city = StrCell(<<" ">>)],
          [GoodRow EXCEPT !.city = NaNCell],
          [GoodRow EXCEPT !.dd_lat = NaNCell],
          [GoodRow EXCEPT !.city = StrCell(<<>>), !.dd_lat = NumCell(500)]}

\* df.columns: complete, or with required columns missing
ColumnSets ==
    LET all == {required_columns[i] : i \in DOMAIN required_columns}
    IN {all, all \ {"road"}, all \ {"dd_lat", "dms_lat"}}

InitValidate ==
    /\ MergeIdle
    /\ FetchIdle
    /\ TransIdle
    /\ DmsIdle
    /\ CoordIdle
    /\ CollectIdle
    /\ LoadIdle
    /\ v_columns \in ColumnSets
    /\ v_table \in SeqsUpTo(ValRows, MaxVRows)
    /\ v_pc = "start"
    /\ v_idx = 1
    /\ v_errors = <<>>
    /\ v_warnings = <<>>
    /\ valid_rows = 0
    /\ invalid_rows = 0

\* lines 125-129: a required column is missing
ValMissingColumns ==
    /\ UNCHANGED nonValVars
    /\ v_pc = "start"
    /\ MissingColumns(v_columns) # {}
    /\ v_errors' = Append(v_errors, MissingColumnsError(MissingColumns(v_columns)))
    /\ invalid_rows' = invalid_rows + 1
    /\ v_pc' = "done"
    /\ UNCHANGED <<v_columns, v_table, v_idx, v_warnings, valid_rows>>

\* lines 132-134: the table has no rows
ValEmptyTable ==
    /\ UNCHANGED nonValVars
    /\ v_pc = "start"
    /\ MissingColumns(v_columns) = {}
    /\ Len(v_table) = 0
    /\ v_warnings' = Append(v_warnings, EmptyWarning)
    /\ v_pc' = "done"
    /\ UNCHANGED <<v_columns, v_table, v_idx, v_errors, valid_rows, invalid_rows>>

\* line 137: the row loop is entered
ValStartRows ==
    /\ UNCHANGED nonValVars
    /\ v_pc = "start"
    /\ MissingColumns(v_columns) = {}
    /\ Len(v_table) > 0
    /\ v_pc' = "rows"
    /\ UNCHANGED <<v_columns, v_table, v_idx, v_errors, v_warnings, valid_rows,
                   invalid_rows>>

InVLoop == v_pc = "rows" /\ v_idx <= Len(v_table)

\* lines 138-142: the row validates
ValRowValid ==
    /\ UNCHANGED nonValVars
    /\ InVLoop
    /\ ViolatedFields(v_table[v_idx]) = {}
    /\ valid_rows' = valid_rows + 1
    /\ v_idx' = v_idx + 1
    /\ UNCHANGED <<v_columns, v_table, v_pc, v_errors, v_warnings, invalid_rows>>

\* lines 144-152: ValidationError, one aggregated error for the row
ValRowInvalid ==
    /\ UNCHANGED nonValVars
    /\ InVLoop
    /\ ViolatedFields(v_table[v_idx]) # {}
    /\ v_errors' = Append(v_errors, RowError(v_idx - 1, ViolatedFields(v_table[v_idx])))
    /\ invalid_rows' = invalid_rows + 1
    /\ v_idx' = v_idx + 1
    /\ UNCHANGED <<v_columns, v_table, v_pc, v_warnings, valid_rows>>

AfterVLoop == v_pc = "rows" /\ v_idx > Len(v_table)

\* lines 158-167: duplicates are reported as two warnings
ValDuplicatesFound ==
    /\ UNCHANGED nonValVars
    /\ AfterVLoop
    /\ DuplicateRows(v_table) # <<>>
    /\ v_warnings' = v_warnings \o << DuplicateCountWarning(Len(DuplicateRows(v_table))),
                                     DuplicateRowsWarning(DuplicateRows(v_table)) >>
    /\ v_pc' = "missing"
    /\ UNCHANGED <<v_columns, v_table, v_idx, v_errors, valid_rows, invalid_rows>>

\* line 161: duplicates.any() is false
ValNoDuplicates ==
    /\ UNCHANGED nonValVars
    /\ AfterVLoop
    /\ DuplicateRows(v_table) = <<>>
    /\ v_pc' = "missing"
    /\ UNCHANGED <<v_columns, v_table, v_idx, v_errors, v_warnings, valid_rows,
                   invalid_rows>>

\* lines 170-175: one add_error per column with missing values, then return
ValMissingValues ==
    /\ UNCHANGED nonValVars
    /\ v_pc = "missing"
    /\ v_errors' = v_errors \o MissingValueErrors(v_table)
    /\ invalid_rows' = invalid_rows + Len(MissingValueErrors(v_table))
    /\ v_pc' = "done"
    /\ UNCHANGED <<v_columns, v_table, v_idx, v_warnings, valid_rows>>

NextValidate ==
    \/ ValMissingColumns
    \/ ValEmptyTable
    \/ ValStartRows
    \/ ValRowValid
    \/ ValRowInvalid
    \/ ValDuplicatesFound
    \/ ValNoDuplicates
    \/ ValMissingValues

SpecValidate == InitValidate /\ [][NextValidate]_vars

-----------------------------------------------------------------------------
(* geocoding.py: decimal_to_dms *)

\* In this section an angle is a whole number of thousandths of an arc second:
\* a degree is 3600000 of them, a minute 60000, a second 1000.

\* abs(decimal)
Abs(v) == IF v < 0 THEN -v ELSE v

\* is_positive = decimal >= 0
IsPositive_strict(decimal) == decimal > 0
IsPositive(decimal) == decimal >= 0

\* the decimal digits of a natural number, as str() and format() print them
DigitChar(d) == <<"0", "1", "2", "3", "4", "5", "6", "7", "8", "9">>[d + 1]
RECURSIVE Digits(_)
Digits(n) == IF n < 10 THEN <<DigitChar(n)>> ELSE Digits(n \div 10) \o <<DigitChar(n % 10)>>

\* zero padding to a minimum width (format 02d, and the 05 of 05.2f)
RECURSIVE ZeroPad(_, _)
ZeroPad(text, width) == IF Len(text) >= width THEN text ELSE ZeroPad(<<"0">> \o text, width)

\* seconds rounded to two decimals, in hundredths (format .2f rounds to the
\* nearest, ties to even)
RoundToHundredths(thousandths) ==
    LET q == thousandths \div 10
        r == thousandths % 10
    IN IF r > 5 \/ (r = 5 /\ q % 2 = 1) THEN q + 1 ELSE q

\* f"{seconds:05.2f}"
FormatSeconds(thousandths) ==
    LET h == RoundToHundredths(thousandths)
    IN ZeroPad(Digits(h \div 100) \o <<".">> \o ZeroPad(Digits(h % 100), 2), 5)

\* lines 30-44
decimal_to_dms(decimal, is_latitude) ==
    LET is_positive == IsPositive(decimal)
        value == Abs(decimal)
        degrees == value \div 3600000
        minutes_decimal == value - degrees * 3600000
        minutes == minutes_decimal \div 60000
        seconds == minutes_decimal - minutes * 60000
        direction == IF is_latitude
                     THEN (IF is_positive THEN "N" ELSE "S")
                     ELSE (IF is_positive THEN "E" ELSE "W")
    IN Digits(degrees) \o <<"°">> \o ZeroPad(Digits(minutes), 2) \o <<"'">>
       \o FormatSeconds(seconds) \o <<"\"", direction>>

\* the number a text of decimal digits denotes (-1 if it is no such text)
DigitValue(ch) ==
    IF ch \in {"0", "1", "2", "3", "4", "5", "6", "7", "8", "9"}
    THEN CHOOSE d \in 0..9 : DigitChar(d) = ch
    ELSE -1
RECURSIVE NumeralValue(_)
NumeralValue(text) ==
    IF text = <<>> \/ \E i \in DOMAIN text : DigitValue(text[i]) < 0 THEN -1
    ELSE IF Len(text) = 1 THEN DigitValue(text[1])
    ELSE 10 * NumeralValue(SubSeq(text, 1, Len(text) - 1)) + DigitValue(text[Len(text)])

-----------------------------------------------------------------------------
(* geocoding.py: dms_to_decimal *)

RECURSIVE ReplaceMarks(_)
\* line 66: .replace('°', ' ').replace("'", ' ').replace('"', '')
ReplaceMarks(text) ==
    IF text = <<>> THEN <<>>
    ELSE LET ch == Head(text)
         IN (IF ch \in {"°", "'"} THEN <<" ">>
             ELSE IF ch = "\"" THEN <<>>
             ELSE <<ch>>) \o ReplaceMarks(Tail(text))

RECURSIVE Split(_)
\* str.split(): the maximal runs of non-blank characters, in order
Split(text) ==
    IF text = <<>> THEN <<>>
    ELSE IF Head(text) = " " THEN Split(Tail(text))
    ELSE LET blanks == {i \in DOMAIN text : text[i] = " "}
             stop == IF blanks = {} THEN Len(text) + 1
                     ELSE CHOOSE i \in blanks : \A j \in blanks : i <= j
         IN <<SubSeq(text, 1, stop - 1)>> \o Split(SubSeq(text, stop, Len(text)))

\* float(part) of a numeral with at most three decimals, in thousandths
Float(part) ==
    LET dots == {i \in DOMAIN part : part[i] = "."}
        dot == IF dots = {} THEN Len(part) + 1 ELSE CHOOSE i \in dots : TRUE
        whole == NumeralValue(SubSeq(part, 1, dot - 1))
        decimals == SubSeq(part, dot + 1, Len(part))
        scale == <<100, 10, 1>>
    IN IF decimals = <<>> THEN 1000 * whole
       ELSE 1000 * whole + scale[Len(decimals)] * NumeralValue(decimals)

\* line 76: the directions that negate the value
NegativeDirections_southOnly == {"S"}
NegativeDirections == {"S", "W"}

\* lines 62-79, for a string whose parts are numerals.  The result is in
\* thousandths of an arc second: degrees + minutes / 60 + seconds / 3600.
dms_to_decimal(dms) ==
    LET direction == dms[Len(dms)]
        parts == Split(ReplaceMarks(SubSeq(dms, 1, Len(dms) - 1)))
        degrees == Float(parts[1])
        minutes == IF Len(parts) > 1 THEN Float(parts[2]) ELSE 0
        seconds == IF Len(parts) > 2 THEN Float(parts[3]) ELSE 0
        decimal == 3600 * degrees + 60 * minutes + seconds
    IN IF direction \in NegativeDirections THEN -decimal ELSE decimal

\* the angles converted: whole degrees, minutes and seconds, seconds that
\* round down, up and on a tie, and seconds that round up to a whole minute
DmsAngles ==
    {d * 3600000 + m * 60000 + t :
        d \in {0, 25, 121}, m \in {0, 1, 59},
        t \in {0, 4, 5, 15, 25, 58800, 59994, 59995, 59999}}
DmsInputs == DmsAngles \cup {-a : a \in DmsAngles}

InitDms ==
    /\ MergeIdle
    /\ FetchIdle
    /\ TransIdle
    /\ ValIdle
    /\ CoordIdle
    /\ CollectIdle
    /\ LoadIdle
    /\ dms_decimal \in DmsInputs
    /\ dms_is_latitude \in BOOLEAN
    /\ dms_pc = "start"
    /\ dms_text = <<>>
    /\ dms_back = 0

\* decimal_to_dms(decimal, is_latitude) is called and returns
CallDecimalToDms ==
    /\ UNCHANGED nonDmsVars
    /\ dms_pc = "start"
    /\ dms_text' = decimal_to_dms(dms_decimal, dms_is_latitude)
    /\ dms_pc' = "done"
    /\ UNCHANGED <<dms_decimal, dms_is_latitude, dms_back>>

\* dms_to_decimal(dms) is called on the returned string and returns
CallDmsToDecimal ==
    /\ UNCHANGED nonDmsVars
    /\ dms_pc = "done"
    /\ dms_back' = dms_to_decimal(dms_text)
    /\ dms_pc' = "parsed"
    /\ UNCHANGED <<dms_decimal, dms_is_latitude, dms_text>>

NextDms ==
    \/ CallDecimalToDms
    \/ CallDmsToDecimal

SpecDms == InitDms /\ [][NextDms]_vars

-----------------------------------------------------------------------------
(* geocoding.py: validate_coordinates *)

\* In this section a coordinate is a whole number of tenths of a degree.

\* line 152: -90 <= lat <= 90 and -180 <= lon <= 180
validate_coordinates_exclusive(lat, lon) ==
    -900 < lat /\ lat < 900 /\ -1800 < lon /\ lon < 1800
validate_coordinates(lat, lon) ==
    -900 <= lat /\ lat <= 900 /\ -1800 <= lon /\ lon <= 1800

\* the arguments tried: the bounds, their neighbours on both sides, and
\* values well inside and well outside
CoordLats == {-910, -901, -900, -899, 0, 250, 899, 900, 901, 910}
CoordLons == {-1810, -1801, -1800, -1799, 0, 1215, 1799, 1800, 1801, 1810}

InitCoord ==
    /\ MergeIdle
    /\ FetchIdle
    /\ TransIdle
    /\ ValIdle
    /\ DmsIdle
    /\ CollectIdle
    /\ LoadIdle
    /\ coord_lat \in CoordLats
    /\ coord_lon \in CoordLons
    /\ coord_pc = "start"
    /\ coord_valid = FALSE

\* validate_coordinates(lat, lon) is called and returns
CallValidateCoordinates ==
    /\ UNCHANGED nonCoordVars
    /\ coord_pc = "start"
    /\ coord_valid' = validate_coordinates(coord_lat, coord_lon)
    /\ coord_pc' = "done"
    /\ UNCHANGED <<coord_lat, coord_lon>>

NextCoord ==
    \/ CallValidateCoordinates

SpecCoord == InitCoord /\ [][NextCoord]_vars

-----------------------------------------------------------------------------
(* main.py: collect_data *)

\* bound of the collect model: the most errors a validation result holds
MaxFindings == 12

\* line 93: the number of errors shown in the log
shown_errors == 10

\* the steps of the try block that can raise: load_config() (line 69),
\* DataMerger(config) and collect_and_merge() (lines 72-73), and the output
\* path lookup, mkdir and to_csv (lines 76-82).  validate_csv_file catches
\* every exception itself (csv_validator.py lines 192-202).
CollectFaults == {"none", "load_config", "merge", "write"}

\* the ValidationResult of the written file: the numbers of errors and warnings
ValidationResults == [errors : 0..MaxFindings, warnings : 0..2]

\* ValidationResult.is_valid()
ResultIsValid(result) == result.errors = 0

\* lines 92-98: the warning lines logged for a result that is not valid
LoggedLines(result) ==
    1 + (IF result.errors > shown_errors THEN shown_errors + 1 ELSE result.errors)

\* line 103: the exit code after validation
ExitCode_failOnFindings(result) == IF ResultIsValid(result) THEN 0 ELSE 1
ExitCode(result) == 0

InitCollect ==
    /\ MergeIdle
    /\ FetchIdle
    /\ TransIdle
    /\ ValIdle
    /\ DmsIdle
    /\ CoordIdle
    /\ LoadIdle
    /\ c_fault \in CollectFaults
    /\ c_findings \in ValidationResults
    /\ c_pc = "load_config"
    /\ c_trace = <<>>
    /\ c_logged = 0
    /\ c_exit = -1

\* line 69: load_config() returns
CollectLoadConfig ==
    /\ UNCHANGED nonCollectVars
    /\ c_pc = "load_config"
    /\ c_fault # "load_config"
    /\ c_trace' = Append(c_trace, "load_config")
    /\ c_pc' = "merge"
    /\ UNCHANGED <<c_fault, c_findings, c_logged, c_exit>>

\* lines 72-73: the merger is created and collect_and_merge() returns
CollectMerge ==
    /\ UNCHANGED nonCollectVars
    /\ c_pc = "merge"
    /\ c_fault # "merge"
    /\ c_trace' = Append(c_trace, "merge")
    /\ c_pc' = "write"
    /\ UNCHANGED <<c_fault, c_findings, c_logged, c_exit>>

\* lines 76-83: the table is written to the output file
CollectWrite ==
    /\ UNCHANGED nonCollectVars
    /\ c_pc = "write"
    /\ c_fault # "write"
    /\ c_trace' = Append(c_trace, "write")
    /\ c_pc' = "validate"
    /\ UNCHANGED <<c_fault, c_findings, c_logged, c_exit>>

\* lines 86-87: validate_csv_file(output_file) returns its result
CollectValidate ==
    /\ UNCHANGED nonCollectVars
    /\ c_pc = "validate"
    /\ c_trace' = Append(c_trace, "validate")
    /\ c_pc' = "report"
    /\ UNCHANGED <<c_fault, c_findings, c_logged, c_exit>>

\* lines 89-90 and 100-103: the result is valid; return
CollectReportValid ==
    /\ UNCHANGED nonCollectVars
    /\ c_pc = "report"
    /\ ResultIsValid(c_findings)
    /\ c_exit' = ExitCode(c_findings)
    /\ c_pc' = "returned"
    /\ UNCHANGED <<c_fault, c_findings, c_trace, c_logged>>

\* lines 91-103: the issues are logged; return
CollectReportIssues ==
    /\ UNCHANGED nonCollectVars
    /\ c_pc = "report"
    /\ ~ResultIsValid(c_findings)
    /\ c_logged' = LoggedLines(c_findings)
    /\ c_exit' = ExitCode(c_findings)
    /\ c_pc' = "returned"
    /\ UNCHANGED <<c_fault, c_findings, c_trace>>

\* lines 105-109: a step of the try block raises; return 1
CollectRaises ==
    /\ UNCHANGED nonCollectVars
    /\ c_pc \in {"load_config", "merge", "write"}
    /\ c_fault = c_pc
    /\ c_exit' = 1
    /\ c_pc' = "returned"
    /\ UNCHANGED <<c_fault, c_findings, c_trace, c_logged>>

NextCollect ==
    \/ CollectLoadConfig
    \/ CollectMerge
    \/ CollectWrite
    \/ CollectValidate
    \/ CollectReportValid
    \/ CollectReportIssues
    \/ CollectRaises

SpecCollect == InitCollect /\ [][NextCollect]_vars

-----------------------------------------------------------------------------
(* merger.py: DataMerger._load_handler, and the handlers' __init__ *)

\* the handler modules that exist in scripts/data_collection
LoadableHandlers == {"new_taipei_handler", "taipei_handler"}

\* the entries BaseDataHandler.__init__ reads from the source config
ConfigKeys == {"url", "format", "coordinate_system", "fields_mapping"}

\* a source dictionary: its 'handler' entry ("" for an absent or empty one),
\* whether it has a 'config' entry, and the keys that entry holds
LoadSources ==
    { [handler |-> h, has_config |-> c, keys |-> k] :
        h \in LoadableHandlers \cup {"", "no_such_handler"},
        c \in BOOLEAN, k \in SUBSET ConfigKeys }

\* line 148: source.get('config', {}), as the set of the keys present
SourceConfig(source) == IF source.has_config THEN source.keys ELSE {}

\* base_handler.py lines 32-37 (and the subclasses' lines after super()):
\* every entry is read with config.get, an absent one becomes its default
BaseInit(config) ==
    [url |-> IF "url" \in config THEN "configured" ELSE "None",
     format |-> IF "format" \in config THEN "configured" ELSE "None",
     coordinate_system |-> IF "coordinate_system" \in config THEN "configured" ELSE "WGS84",
     fields_mapping |-> IF "fields_mapping" \in config THEN "configured" ELSE "{}",
     source_id |-> "None"]

InitLoad ==
    /\ MergeIdle
    /\ FetchIdle
    /\ TransIdle
    /\ ValIdle
    /\ DmsIdle
    /\ CoordIdle
    /\ CollectIdle
    /\ ld_source \in LoadSources
    /\ ld_source.has_config \/ ld_source.keys = {}
    /\ ld_pc = "start"
    /\ ld_handler = <<>>

\* lines 128-130: the source names no handler
LoadNoHandlerName ==
    /\ UNCHANGED nonLoadVars
    /\ ld_pc = "start"
    /\ LoadHandlerRaises(ld_source)
    /\ ld_pc' = "raised"
    /\ UNCHANGED <<ld_source, ld_handler>>

\* lines 138 and 153-155: the named module cannot be imported
LoadImportFails ==
    /\ UNCHANGED nonLoadVars
    /\ ld_pc = "start"
    /\ ~LoadHandlerRaises(ld_source)
    /\ ld_source.handler \notin LoadableHandlers
    /\ ld_pc' = "raised"
    /\ UNCHANGED <<ld_source, ld_handler>>

\* lines 138-151: the class is found and instantiated with the source config
LoadConstruct ==
    /\ UNCHANGED nonLoadVars
    /\ ld_pc = "start"
    /\ ld_source.handler \in LoadableHandlers
    /\ ld_handler' = BaseInit(SourceConfig(ld_source))
    /\ ld_pc' = "constructed"
    /\ UNCHANGED ld_source

NextLoad ==
    \/ LoadNoHandlerName
    \/ LoadImportFails
    \/ LoadConstruct

SpecLoad == InitLoad /\ [][NextLoad]_vars

-----------------------------------------------------------------------------
(* Properties of DataMerger.collect_and_merge (checked under SpecMerge) *)

CountIn(seq, r) == Cardinality({i \in DOMAIN seq : seq[i] = r})

\* the rows the sources handled so far returned, in source order (a source
\* that was disabled, failed or returned nothing contributes no row)
OfferedRows == Concat([i \in DOMAIN outcomes |-> outcomes[i].table])

KindsSeen == {outcomes[i].kind : i \in DOMAIN outcomes}

MergeReturned == m_pc = "done"

C2_FirstOccurrenceWins ==
    (MergeReturned /\ dedup_keys # <<>>) =>
        LET concatenated == Concat(all_data)
            key(r) == KeyOf(r, dedup_keys)
            first(j) == CHOOSE i \in DOMAIN concatenated :
                           /\ key(concatenated[i]) = key(concatenated[j])
                           /\ \A h \in 1..(i-1) : key(concatenated[h]) # key(concatenated[j])
        IN /\ \A a, b \in DOMAIN merged : a # b => key(merged[a]) # key(merged[b])
           /\ \A j \in DOMAIN concatenated :
                 /\ \E k \in DOMAIN merged : key(merged[k]) = key(concatenated[j])
                 /\ \A k \in DOMAIN merged :
                       key(merged[k]) = key(concatenated[j])
                          => merged[k] = concatenated[first(j)]

\* two different rows of different sources agree on the keys, the later one
\* was dropped and the earlier one is in the output
C2_Witness ==
    /\ MergeReturned
    /\ dedup_keys # <<>>
    /\ Len(all_data) >= 2
    /\ \E r1 \in DOMAIN all_data[1], r2 \in DOMAIN all_data[2] :
          /\ all_data[1][r1] # all_data[2][r2]
          /\ KeyOf(all_data[1][r1], dedup_keys) = KeyOf(all_data[2][r2], dedup_keys)
          /\ CountIn(merged, all_data[1][r1]) = 1
          /\ CountIn(merged, all_data[2][r2]) = 0

C4_SortedByCityAreaRoad ==
    MergeReturned =>
        \A i \in 1..(Len(merged) - 1) :
            LexLE(<<merged[i].city, merged[i].area, merged[i].road>>,
                  <<merged[i+1].city, merged[i+1].area, merged[i+1].road>>)

\* three rows that were collected in descending order come out reordered
C4_Witness ==
    /\ MergeReturned
    /\ Len(merged) = 3
    /\ Concat(all_data) = <<R4, R1, R3>>
    /\ merged = <<R3, R1, R4>>

-----------------------------------------------------------------------------
(* Properties of fetch_data (checked under SpecFetch / SpecFetchFair) *)

LastRequested == requested[Len(requested)]

\* what the code's filter kept of the first n pages of the endpoint
KeptOfPages(n) == Concat([p \in 1..n |-> FilterPage(PageRecords(remote, p - 1))])

\* C6: in the paginated handler a transport failure on page 0 leaves
\* fetch_data as an exception; on a later page it ends pagination without an
\* exception and fetch_data returns exactly the filtered rows of the pages
\* fetched before the failure.
C6_TransportFailurePolicy ==
    (f_handler = "new_taipei" /\ f_event = "transport_error") =>
        IF LastRequested = 0
        THEN f_pc = "raised"
        ELSE /\ f_pc = "done"
             /\ f_result = KeptOfPages(LastRequested)

\* page 2 failed after two full pages; the rows kept of pages 0 and 1 are
\* returned, fewer than were fetched
C6_Witness ==
    /\ f_handler = "new_taipei"
    /\ f_event = "transport_error"
    /\ f_pc = "done"
    /\ requested = <<0, 1, 2>>
    /\ Len(f_result) > 0
    /\ Len(f_result) < 2 * PageSize

\* the text of the filter field of a returned row, as the handler reads it
FilterText(r) == IF is_csv THEN AsTypeStr(r[nt_filter_field]) ELSE PyStr(r[nt_filter_field])

RowPassesFilter(r) ==
    IF f_handler = "new_taipei"
    THEN HasField(r, nt_filter_field) /\ Contains(FilterText(r), filter_pattern)
    ELSE \E c \in DOMAIN r :
            /\ Lower(c) = Lower(tp_filter_field)
            /\ AsTypeStr(r[c]) = filter_value

FreshlyFetched == f_pc = "done" /\ f_event # "cache_hit"

\* C7: every row of a table returned by a fresh (non-cached) fetch_data
\* passes the configured inclusion filter, for both handlers and both
\* response formats, also when the filter field is absent from the data.
C7_ReturnedRowsPassFilter ==
    FreshlyFetched => \A i \in DOMAIN f_result : RowPassesFilter(f_result[i])

\* the same statement outside the CSV branch with the filter column absent
C7_HoldsWithFilterColumn ==
    (FreshlyFetched /\ ~(f_handler = "new_taipei" /\ is_csv /\ ~remote.has_field)) =>
        \A i \in DOMAIN f_result : RowPassesFilter(f_result[i])

\* C8: on a cache miss the paginated handler requests pages 0, 1, 2, ... in
\* turn, at most max_pages (100) of them, and then fetch_data ends, also when
\* every page is full and nothing fails: the page counter is bounded by the
\* cap, every step of the loop raises it by one or leaves the loop, and the
\* loop is never stuck.
C8_RequestsBounded ==
    f_handler = "new_taipei" =>
        /\ Len(requested) <= max_pages
        /\ \A i \in DOMAIN requested : requested[i] = i - 1
        /\ f_pc = "loop" =>
              /\ page = Len(requested)
              /\ page <= max_pages
              /\ ENABLED NextFetch

\* a step taken inside the loop requests the next page number or leaves the loop
C8_LoopStepAdvances ==
    (f_handler = "new_taipei" /\ f_pc = "loop") =>
        \/ f_pc' \in {"done", "raised"}
        \/ /\ f_pc' = "loop"
           /\ page' = page + 1
           /\ requested' = Append(requested, page)

C8_PaginationTerminates ==
    /\ []C8_RequestsBounded
    /\ [][C8_LoopStepAdvances]_vars

\* every one of the 100 pages came back full and the page cap ended the loop
C8_Witness ==
    /\ f_handler = "new_taipei"
    /\ f_pc = "done"
    /\ f_event = "page_cap"
    /\ Len(requested) = max_pages
    /\ LastRequested = max_pages - 1
    /\ Len(nt_all_data) = max_pages

-----------------------------------------------------------------------------
(* Properties of transform_data *)

\* the loop body of the handler in use
TransformRowOutcome(row) ==
    IF t_handler = "taipei" THEN TpTransformRowOutcome(row) ELSE NtTransformRowOutcome(row)

\* the coordinate of a raw row is missing, non-numeric, or outside the range
\* of the coordinate system in use
CoordinateUnusable(row) ==
    IF t_handler = "taipei"
    THEN \/ row.geometry.kind # "geom"
         \/ is_wgs84 /\ ~InWgs84Range(row.geometry.y, row.geometry.x)
         \/ ~is_wgs84 /\ ~InTwd97Range(row.geometry.x, row.geometry.y)
    ELSE LET a == IF is_wgs84 THEN row.lat ELSE row.X
             b == IF is_wgs84 THEN row.lon ELSE row.Y
         IN \/ a.kind \notin {"num", "numstr"}
            \/ b.kind \notin {"num", "numstr"}
            \/ is_wgs84 /\ ~InWgs84Range(a.val, b.val)
            \/ ~is_wgs84 /\ ~InTwd97Range(a.val, b.val)

\* the rows the loop has been through, by their fate
RowsWithFate(fate) == {i \in 1..Len(fates) : fates[i] = fate}
EmittedIndexes == SelectSeq([i \in 1..Len(fates) |-> i], LAMBDA i : fates[i] = "emitted")

\* C9: in every handler, a row whose coordinate is missing, non-numeric or out
\* of range produces no record and is not counted as an error (it is skipped),
\* so every emitted record comes from in-range input coordinates.
C9_UnusableCoordinateSkipped ==
    \A i \in 1..Len(fates) :
        CoordinateUnusable(t_input[i]) => fates[i] = "skipped"

\* the statement of C9 restricted to NewTaipeiHandler and scalar cells
C9_HoldsForNewTaipeiScalars ==
    t_handler = "new_taipei" =>
        \A i \in 1..Len(fates) :
            /\ CoordinateUnusable(t_input[i])
            /\ "list" \notin {(IF is_wgs84 THEN t_input[i].lat ELSE t_input[i].X).kind,
                              (IF is_wgs84 THEN t_input[i].lon ELSE t_input[i].Y).kind}
            => fates[i] = "skipped"

\* the tally and order part of C10, for a call that returns
TallyAndOrderKept ==
    t_pc = "done" =>
        /\ Len(fates) = Len(t_input)
        /\ Len(t_data) = Cardinality(RowsWithFate("emitted"))
        /\ errors = Cardinality(RowsWithFate("error"))
        /\ Len(t_data) + Cardinality(RowsWithFate("skipped")) + errors = Len(t_input)
        /\ t_data = [k \in 1..Len(EmittedIndexes) |->
                        TransformRowOutcome(t_input[EmittedIndexes[k]]).rec]

\* C10: transform_data never raises because of a single row (a row's exception
\* is caught and counted, later rows are still transformed), and for n input
\* rows emitted + skipped + errors = n with the emitted records in input order.
C10_NeverRaisesForARow ==
    /\ t_pc = "raised" => Len(t_input) = 0
    /\ TallyAndOrderKept

\* the statement of C10 restricted to NewTaipeiHandler
C10_HoldsForNewTaipei ==
    t_handler = "new_taipei" => t_pc # "raised" /\ TallyAndOrderKept

-----------------------------------------------------------------------------
(* Properties of the emitted text fields *)

\* the raw row the k-th emitted record was made from
SourceRow(k) == t_input[EmittedIndexes[k]]

\* C11: a mapping value "fixed:" followed by a literal L resolves to exactly L
\* whatever the row holds; a mapping value without the prefix names a source
\* field and resolves to the text of that field of the row.
C11_FieldResolution ==
    \A k \in 1..Len(t_data) :
        "city" \in DOMAIN fields_mapping =>
            LET mapping_value == fields_mapping["city"]
            IN IF mapping_value[1] = "fixed:"
               THEN t_data[k].city = Tail(mapping_value)
               ELSE ColumnOf(mapping_value) \in DOMAIN SourceRow(k) =>
                        t_data[k].city = PyStr(SourceRow(k)[ColumnOf(mapping_value)])

\* the statement of C11 for literals that do not themselves contain "fixed:"
C11_HoldsForPlainLiterals ==
    \A k \in 1..Len(t_data) :
        /\ "city" \in DOMAIN fields_mapping
        /\ fields_mapping["city"][1] = "fixed:"
        /\ ~Contains(Tail(fields_mapping["city"]), <<"fixed:">>)
        => t_data[k].city = Tail(fields_mapping["city"])

\* C12: every emitted record has a city that is a non-empty string without
\* leading or trailing whitespace, for every field mapping and row content.
C12_CityNonEmptyTrimmed ==
    \A k \in 1..Len(t_data) :
        /\ t_data[k].city # <<>>
        /\ Strip(t_data[k].city) = t_data[k].city

\* the statement of C12 for a fixed or absent city mapping
C12_HoldsWithoutMappedCity ==
    \A k \in 1..Len(t_data) :
        ("city" \notin DOMAIN fields_mapping \/ fields_mapping["city"][1] = "fixed:")
        => t_data[k].city # <<>> /\ Strip(t_data[k].city) = t_data[k].city

\* the raw text a mapped field of the row resolves to, before the clean-up
RawText(row, mapping_key) == GetFieldValue(row, mapping_key, <<>>)

\* C13: every emitted record has area and road without leading or trailing
\* whitespace and never equal to "None", "nan", "<NA>" or "NaN"; a raw value
\* that is one of these after trimming, or blank, is emitted as ''.
C13_AreaRoadNormalized ==
    \A k \in 1..Len(t_data) :
        \A f \in {"area", "road"} :
            /\ Strip(t_data[k][f]) = t_data[k][f]
            /\ t_data[k][f] \notin Placeholders \ {<<>>}
            /\ Strip(RawText(SourceRow(k), f)) \in Placeholders => t_data[k][f] = <<>>

\* a padded area was trimmed and a missing road became '' in an emitted record
C13_Witness ==
    /\ t_pc = "done"
    /\ \E k \in 1..Len(t_data) :
        /\ RawText(SourceRow(k), "area") = <<" ", "A", " ">>
        /\ t_data[k].area = <<"A">>
        /\ RawText(SourceRow(k), "road") = <<"n", "a", "n">>
        /\ t_data[k].road = <<>>

-----------------------------------------------------------------------------
(* Properties of the Record Validator *)

\* the rows the per-row loop has been through
CheckedRows == 1..(v_idx - 1)

\* the fields named by the error entries of the row at position i
ReportedFields(i) ==
    UNION {v_errors[k].fields :
            k \in {n \in DOMAIN v_errors : v_errors[n].kind = "row" /\ v_errors[n].idx = i - 1}}

\* the table has a number in both coordinate fields of row i
HasCoordinates(i) == v_table[i].dd_lat.kind = "num" /\ v_table[i].dd_long.kind = "num"

\* C14: a row passes the dd_lat / dd_long checks exactly when its coordinates
\* are inside the Taiwan bounds (inclusive); a row with dd_lat = 50.0 is
\* reported as an error and makes is_valid() false.
C14_CoordinatesPassIffInTaiwan ==
    \A i \in CheckedRows :
        HasCoordinates(i) =>
            /\ ({"dd_lat", "dd_long"} \cap ReportedFields(i) = {})
                    <=> IsInTaiwan(v_table[i].dd_lat.val, v_table[i].dd_long.val)
            /\ v_table[i].dd_lat.val = 500 => "dd_lat" \in ReportedFields(i) /\ ~IsValid

\* validation finished on a table holding a row with dd_lat = 50.0
C14_Witness ==
    /\ v_pc = "done"
    /\ ~IsValid
    /\ \E i \in CheckedRows :
        /\ v_table[i].dd_lat = NumCell(500)
        /\ v_table[i].dd_long = NumCell(1215)
        /\ ReportedFields(i) = {"dd_lat"}

\* a DMS text as the data model wants it: the three symbols are present and
\* the text ends in a direction letter
WellFormedDms(text) ==
    /\ HasToken(text, "°") /\ HasToken(text, "'") /\ HasToken(text, "\"")
    /\ text[Len(text)] \in {"N", "S", "E", "W"}

\* row i satisfies the StandardRecord invariants, area and road possibly ''
MeetsRecordInvariants(i) ==
    LET row == v_table[i]
    IN /\ row.city.kind = "str" /\ Strip(row.city.text) # <<>>
       /\ row.area.kind = "str" /\ row.road.kind = "str"
       /\ HasCoordinates(i) /\ IsInTaiwan(row.dd_lat.val, row.dd_long.val)
       /\ row.dms_lat.kind = "str" /\ WellFormedDms(row.dms_lat.text)
       /\ row.dms_long.kind = "str" /\ WellFormedDms(row.dms_long.text)

\* C15: a row with a non-empty city, coordinates inside the Taiwan bounds,
\* well-formed DMS strings and an empty area or road produces no validation
\* error and is counted as a valid row.
C15_EmptyAreaRoadAccepted ==
    /\ \A i \in CheckedRows : MeetsRecordInvariants(i) => ReportedFields(i) = {}
    /\ v_pc = "done" /\ Len(v_table) > 0 /\ MissingColumns(v_columns) = {} =>
            valid_rows >= Cardinality({i \in DOMAIN v_table : MeetsRecordInvariants(i)})

\* the statement of C15 for rows whose area and road are not blank
C15_HoldsForNonEmptyAreaRoad ==
    \A i \in CheckedRows :
        /\ MeetsRecordInvariants(i)
        /\ Strip(v_table[i].area.text) # <<>>
        /\ Strip(v_table[i].road.text) # <<>>
        => ReportedFields(i) = {}

\* C16: a row whose dms_lat or dms_long is malformed (a symbol missing, or
\* no direction letter at the end, even with one elsewhere) is an error.
C16_MalformedDmsReported ==
    \A i \in CheckedRows :
        \A f \in {"dms_lat", "dms_long"} :
            (v_table[i][f].kind = "str" /\ v_table[i][f].text # <<>> /\
                ~WellFormedDms(v_table[i][f].text))
            => f \in ReportedFields(i)

\* the statement of C16 for texts that hold no direction letter at all
C16_HoldsWithoutDirectionLetter ==
    \A i \in CheckedRows :
        \A f \in {"dms_lat", "dms_long"} :
            (v_table[i][f].kind = "str" /\
                ~(\E d \in {"N", "S", "E", "W"} : HasToken(v_table[i][f].text, d)))
            => f \in ReportedFields(i)

\* the entries of the error list written for the row at position i
RowEntries(i) ==
    {k \in DOMAIN v_errors : v_errors[k].kind = "row" /\ v_errors[k].idx = i - 1}

\* every row that violates an invariant has exactly one entry, naming all its
\* violated fields
OneEntryPerInvalidRow ==
    \A i \in CheckedRows :
        IF ViolatedFields(v_table[i]) = {} THEN RowEntries(i) = {}
        ELSE /\ Cardinality(RowEntries(i)) = 1
             /\ ReportedFields(i) = ViolatedFields(v_table[i])

\* the rows that violate an invariant are counted once each
InvalidRowsCounted ==
    v_pc = "done" /\ MissingColumns(v_columns) = {} /\ Len(v_table) > 0 =>
        invalid_rows = Cardinality({i \in DOMAIN v_table : ViolatedFields(v_table[i]) # {}})

\* C17: a row that violates one or more field invariants contributes exactly
\* one entry to the error list, naming every violated field, and is counted as
\* exactly one invalid row; validate never removes or changes a row.
C17_OneErrorPerInvalidRow ==
    /\ [](OneEntryPerInvalidRow /\ InvalidRowsCounted)
    /\ [][v_table' = v_table]_vars

\* the statement of C17 without the count of invalid rows
C17_HoldsForEntriesAndTable ==
    /\ []OneEntryPerInvalidRow
    /\ [][v_table' = v_table]_vars

\* the positions of the rows that share city, area, road, dd_lat and dd_long
\* with another row
DuplicatePositions ==
    {i - 1 : i \in {n \in DOMAIN v_table :
        \E j \in DOMAIN v_table :
            /\ j # n
            /\ \A f \in {"city", "area", "road", "dd_lat", "dd_long"} :
                    v_table[j][f] = v_table[n][f]}}

\* validate found nothing but duplicates
OnlyDuplicatesFound ==
    /\ v_pc = "done"
    /\ MissingColumns(v_columns) = {}
    /\ DuplicatePositions # {}
    /\ \A i \in DOMAIN v_table :
        /\ ViolatedFields(v_table[i]) = {}
        /\ \A f \in DOMAIN v_table[i] : v_table[i][f].kind \notin {"nan", "none"}

\* C18: is_valid() is true exactly when the error list is empty, warnings
\* never affect it; a table whose only finding is duplicate rows gets
\* warnings listing the duplicate positions and is still valid.
C18_ValidIffNoErrors ==
    /\ IsValid <=> v_errors = <<>>
    /\ OnlyDuplicatesFound =>
        /\ IsValid
        /\ Len(v_warnings) = 2
        /\ v_warnings[1].count = Cardinality(DuplicatePositions)
        /\ {v_warnings[2].rows[k] : k \in DOMAIN v_warnings[2].rows} = DuplicatePositions

\* a table of two equal valid rows was validated
C18_Witness ==
    /\ OnlyDuplicatesFound
    /\ v_warnings # <<>>
    /\ v_errors = <<>>
    /\ valid_rows = 2

\* df lacks one of the seven required columns
LacksRequiredColumn ==
    \E c \in {"city", "area", "road", "dd_lat", "dd_long", "dms_lat", "dms_long"} :
        c \notin v_columns

\* C19: when a required column is missing the result holds exactly one error
\* and no warning, validation stops before any per-row, duplicate or
\* missing-value check (valid_rows stays 0), and is_valid() is false.
C19_MissingColumnsStopEarly ==
    LacksRequiredColumn =>
        /\ v_pc \in {"start", "done"}
        /\ v_idx = 1
        /\ valid_rows = 0
        /\ v_warnings = <<>>
        /\ v_pc = "start" => v_errors = <<>>
        /\ v_pc = "done" =>
            /\ Len(v_errors) = 1
            /\ v_errors[1].kind = "missing_columns"
            /\ ~IsValid

\* validate returned on a table with rows that lacks a required column
C19_Witness ==
    /\ LacksRequiredColumn
    /\ v_pc = "done"
    /\ Len(v_table) > 0
    /\ Len(v_errors) = 1

-----------------------------------------------------------------------------
(* Properties of decimal_to_dms *)

\* C20: decimal_to_dms(v, is_latitude) prints degrees = floor(|v|), then the
\* degree sign, minutes = floor(fractional degrees * 60) with two digits, the
\* minute sign, seconds with two integer digits and exactly two decimals, the
\* second sign, and a direction letter chosen by sign: N / E for v >= 0,
\* S / W for v < 0; 0.0 gives 0°00'00.00"N and 0°00'00.00"E.
C20_DecimalToDmsFormat ==
    dms_pc = "done" =>
        LET n == Len(dms_text)
            a == IF dms_decimal < 0 THEN -dms_decimal ELSE dms_decimal
            whole_degrees == a \div 3600000
            whole_minutes == (a - whole_degrees * 3600000) \div 60000
            rest == a - whole_degrees * 3600000 - whole_minutes * 60000
            printed_hundredths == 100 * NumeralValue(SubSeq(dms_text, n - 6, n - 5))
                                  + NumeralValue(SubSeq(dms_text, n - 3, n - 2))
        IN /\ n >= 12
           /\ NumeralValue(SubSeq(dms_text, 1, n - 11)) = whole_degrees
           /\ dms_text[n - 10] = "°"
           /\ NumeralValue(SubSeq(dms_text, n - 9, n - 8)) = whole_minutes
           /\ dms_text[n - 7] = "'"
           /\ dms_text[n - 4] = "."
           /\ 10 * printed_hundredths - rest \in -5..5
           /\ dms_text[n - 1] = "\""
           /\ dms_text[n] = IF dms_is_latitude
                            THEN (IF dms_decimal >= 0 THEN "N" ELSE "S")
                            ELSE (IF dms_decimal >= 0 THEN "E" ELSE "W")
           /\ dms_decimal = 0 =>
                dms_text = <<"0", "°", "0", "0", "'", "0", "0", ".", "0", "0", "\"",
                             IF dms_is_latitude THEN "N" ELSE "E">>

\* decimal_to_dms(0.0, True) returned 0°00'00.00"N
C20_Witness ==
    /\ dms_pc = "done"
    /\ dms_decimal = 0
    /\ dms_is_latitude
    /\ dms_text = <<"0", "°", "0", "0", "'", "0", "0", ".", "0", "0", "\"", "N">>

-----------------------------------------------------------------------------
(* Properties of the DMS round trip *)

\* C21: dms_to_decimal(decimal_to_dms(v, is_latitude)) differs from v by less
\* than 1e-4 degree (360 thousandths of an arc second), and has the sign of v
\* whenever it is not zero.
C21_DmsRoundTrip ==
    dms_pc = "parsed" =>
        /\ Abs(dms_back - dms_decimal) < 360
        /\ dms_back > 0 => dms_decimal > 0
        /\ dms_back < 0 => dms_decimal < 0
        /\ dms_decimal = 0 => dms_back = 0

\* a western longitude whose seconds were rounded came back negative and
\* within the tolerance, but not exactly
C21_Witness ==
    /\ dms_pc = "parsed"
    /\ ~dms_is_latitude
    /\ dms_decimal < 0
    /\ dms_back < 0
    /\ dms_back # dms_decimal

\* the minutes and seconds fields of the returned string, the seconds in
\* hundredths
MinutesField == NumeralValue(SubSeq(dms_text, Len(dms_text) - 9, Len(dms_text) - 8))
SecondsField ==
    100 * NumeralValue(SubSeq(dms_text, Len(dms_text) - 6, Len(dms_text) - 5))
    + NumeralValue(SubSeq(dms_text, Len(dms_text) - 3, Len(dms_text) - 2))

\* C30: the string decimal_to_dms returns has a minutes field in 00..59 and a
\* seconds field strictly below 60, never 60.00.
C30_SecondsBelowSixty ==
    dms_pc \in {"done", "parsed"} =>
        /\ MinutesField \in 0..59
        /\ SecondsField < 6000

-----------------------------------------------------------------------------
(* Properties of NewTaipeiHandler.fetch_data: failures, end of data, cache *)

\* the events that are a failure of one page
FetchFailures == {"transport_error", "body_unparseable", "payload_not_list"}

PageFailed == f_handler = "new_taipei" /\ f_event \in FetchFailures

\* C24: any failure on the first page (a transport error, a body that cannot
\* be parsed, a JSON payload that is not a list) makes fetch_data raise; the
\* same failure on a later page only stops pagination.
C24_FirstPageFailureFatal ==
    PageFailed =>
        IF LastRequested = 0
        THEN f_pc = "raised"
        ELSE /\ f_pc = "done"
             /\ f_result = KeptOfPages(LastRequested)

\* the part of C24 about later pages: the failure only stops pagination
C24_HoldsOnLaterPages ==
    (PageFailed /\ LastRequested > 0) =>
        /\ f_pc = "done"
        /\ f_result = KeptOfPages(LastRequested)

\* the rows of a sequence
RowsOf(table) == {table[i] : i \in DOMAIN table}

EndOfData == f_handler = "new_taipei" /\ f_event \in {"empty_page", "short_page"}

\* the pages received when the endpoint signalled the end of the data
PagesReceived == 0..LastRequested

\* an empty or short page ended fetch_data normally: nothing raised, the
\* pages were requested in turn up to that page, and the result holds what
\* the filter kept of every page received, the last one included
C25_EndOfDataIsNormal ==
    EndOfData =>
        /\ f_pc = "done"
        /\ Len(PageRecords(remote, LastRequested)) < PageSize
        /\ \A i \in DOMAIN requested : requested[i] = i - 1
        /\ f_result = KeptOfPages(LastRequested + 1)
        /\ \A p \in PagesReceived :
              \A r \in RowsOf(PageRecords(remote, p)) :
                 RowPassesFilter(r) => r \in RowsOf(f_result)

\* below the page cap the only step of the loop is the request of the next
\* page number, and a full page keeps the loop going; once fetch_data has
\* ended no page is requested
C25_FullPageRequestsNext ==
    /\ (InNtLoop /\ page < max_pages) =>
          /\ requested' = Append(requested, page)
          /\ Len(PageRecords(remote, page)) = PageSize /\ f_event' = "none" =>
                f_pc' = "loop" /\ page' = page + 1
    /\ (f_handler = "new_taipei" /\ f_pc \in {"done", "raised"}) =>
          requested' = requested

\* C25: an empty page or a page with fewer than page_size records ends
\* pagination normally: no further page is requested, nothing is raised, and
\* the result contains the filter-matching rows of every page received,
\* those of the short final page included; a page with exactly page_size
\* records is followed by a request for the next page number while below
\* the page cap.
C25_EndOfDataEndsPagination ==
    /\ []C25_EndOfDataIsNormal
    /\ [][C25_FullPageRequestsNext]_vars

\* two full pages and a short third page: the matching row of the short page
\* is in the result
C25_Witness ==
    /\ EndOfData
    /\ f_event = "short_page"
    /\ requested = <<0, 1, 2>>
    /\ \E r \in RowsOf(PageRecords(remote, 2)) :
          RowPassesFilter(r) /\ r \in RowsOf(f_result)

\* C29: only a complete fetch is written to the cache: when a failure on a
\* page cut pagination short, the truncated result is not stored, so the
\* cache is not valid for a following call.
C29_OnlyCompleteFetchCached ==
    (PageFailed /\ f_pc = "done") => ~IsCacheValid(cache)

-----------------------------------------------------------------------------
(* Properties of TaipeiHandler's coordinate-system detection *)

\* there is a sample geometry and it fits neither the TWD97 nor the WGS84 range
SampleFitsNeither ==
    /\ ~SampleRaises(t_input)
    /\ ~InTwd97Range(t_input[1].geometry.x, t_input[1].geometry.y)
    /\ ~InWgs84Range(t_input[1].geometry.y, t_input[1].geometry.x)

\* detection is inconclusive: the CRS does not decide, and the sample fits
\* neither range or there is no sample geometry
DetectionInconclusive ==
    /\ t_handler = "taipei"
    /\ ~CrsDecides
    /\ IF SampleRaises(t_input) THEN TRUE ELSE SampleFitsNeither

\* C27: when coordinate-system detection is inconclusive (the CRS is absent
\* or neither EPSG:4326 nor EPSG:3826, and the sample centroid fits neither
\* range or there is no sample geometry because the table has zero rows or
\* the first geometry is null), transform_data assumes TWD97 and continues
\* without raising; a table with zero rows yields an empty result.
C27_InconclusiveAssumesTwd97 ==
    DetectionInconclusive =>
        /\ t_pc # "raised"
        /\ t_pc \in {"rows", "done"} => ~is_wgs84
        /\ (t_pc = "done" /\ Len(t_input) = 0) => t_data = <<>>

\* the statement of C27 when the first row has a geometry with a centroid
C27_HoldsWithSampleGeometry ==
    (DetectionInconclusive /\ SampleFitsNeither) =>
        /\ t_pc # "raised"
        /\ t_pc \in {"rows", "done"} => ~is_wgs84

-----------------------------------------------------------------------------
(* Properties of the validator's row counters *)

\* the rows that failed the per-row checks: those with a row entry
FailedRows == {i \in DOMAIN v_table : RowEntries(i) # {}}

ValidatedWithAllColumns == v_pc = "done" /\ MissingColumns(v_columns) = {}

\* C28: for every table that has all required columns, after validate
\* valid_rows + invalid_rows equals the number of rows of the table and
\* invalid_rows equals the number of rows that failed the per-row checks,
\* also when a required column contains missing values.
C28_CountersPartitionRows ==
    ValidatedWithAllColumns =>
        /\ valid_rows + invalid_rows = Len(v_table)
        /\ invalid_rows = Cardinality(FailedRows)

\* the statement of C28 for tables without a missing value in a required
\* column, and the count of valid rows in every case
C28_HoldsWithoutMissingValues ==
    ValidatedWithAllColumns =>
        /\ valid_rows = Len(v_table) - Cardinality(FailedRows)
        /\ MissingValueErrors(v_table) = <<>> =>
              /\ valid_rows + invalid_rows = Len(v_table)
              /\ invalid_rows = Cardinality(FailedRows)

-----------------------------------------------------------------------------
(* Properties of validate_coordinates *)

\* C22: validate_coordinates(lat, lon) is true if and only if lat is in
\* [-90, 90] and lon is in [-180, 180], all four bounds inclusive: (-90, -180)
\* and (90, 180) are valid, (91, 0), (-91, 0), (0, 181) and (0, -181) are not.
C22_ValidIffInGlobalRange ==
    coord_pc = "done" =>
        /\ coord_valid <=> (coord_lat \in -900..900 /\ coord_lon \in -1800..1800)
        /\ <<coord_lat, coord_lon>> \in {<<-900, -1800>>, <<900, 1800>>} => coord_valid
        /\ <<coord_lat, coord_lon>> \in {<<910, 0>>, <<-910, 0>>, <<0, 1810>>, <<0, -1810>>}
              => ~coord_valid

\* validate_coordinates(90, 180) returned True
C22_Witness ==
    /\ coord_pc = "done"
    /\ coord_lat = 900
    /\ coord_lon = 1800
    /\ coord_valid

-----------------------------------------------------------------------------
(* Properties of collect_data *)

\* the positions of a step in the history
StepsDone(step) == {i \in DOMAIN c_trace : c_trace[i] = step}

\* C23: in the collect command the output CSV is written before validation
\* starts, and validation findings never change the outcome: whenever
\* configuration loading, merging and writing succeed the run returns exit
\* code 0 even if validation reports errors, and it returns 1 only when one
\* of those earlier steps raised.
C23_ValidationNeverChangesOutcome ==
    /\ \A i \in StepsDone("validate") : \E j \in StepsDone("write") : j < i
    /\ c_pc = "returned" =>
          /\ c_exit \in {0, 1}
          /\ c_fault = "none" => c_exit = 0 /\ StepsDone("validate") # {}
          /\ c_exit = 1 => c_fault # "none" /\ StepsDone("validate") = {}

\* the file was written, validation reported more errors than the log shows,
\* and the run returned 0
C23_Witness ==
    /\ c_pc = "returned"
    /\ c_trace = <<"load_config", "merge", "write", "validate">>
    /\ c_findings.errors > shown_errors
    /\ c_logged = shown_errors + 2
    /\ c_exit = 0

-----------------------------------------------------------------------------
(* Properties of handler loading and construction *)

\* the source config lacks a required entry
LacksRequiredConfig == "url" \notin SourceConfig(ld_source)

\* C26: constructing a handler from a source config that lacks a required
\* entry such as the fetch url raises at construction time, and handler
\* loading raises when the source names no handler.
C26_ConstructionFailsFast ==
    ld_pc # "start" =>
        /\ LacksRequiredConfig => ld_pc = "raised"
        /\ ld_source.handler = "" => ld_pc = "raised"

\* the part of C26 about a source that names no handler
C26_HoldsForMissingHandlerName ==
    (ld_pc # "start" /\ ld_source.handler = "") =>
        ld_pc = "raised" /\ ld_handler = <<>>

=============================================================================
